---- MODULE Spec2Model ----
(***************************************************************************)
(* Ruschm: the token-stream parser (src/parser/parser.rs) and the built-in *)
(* procedures of the base library (src/interpreter/scheme/base.rs).        *)
(*                                                                         *)
(* Rust values are encoded as follows.                                     *)
(*   Option<T>        None is <<>>, Some(x) is <<x>>                       *)
(*   Result<T>        Ok(v) is <<"Ok", v>>, Err(e) is <<"Err", e>>         *)
(*   enum variants    a tuple whose first element is the variant's name,   *)
(*                    followed by its payload: <<"Identifier", "x">>       *)
(*   tuple structs    a tuple of the fields: ParameterFormals is           *)
(*                    <<fixed, variadic>>                                  *)
(*   Located<T>       [data |-> T, location |-> Option<<line, column>>]    *)
(* A method of Parser that takes &mut self is an operator from the parser  *)
(* state p = [current, lexer, location] to [p |-> state after, r |-> its   *)
(* Result]; the ? operator is the IsErr test that returns the callee's     *)
(* record unchanged.  Messages built by format! keep their format string.  *)
(***************************************************************************)
EXTENDS Integers, Sequences, FiniteSets, TLC

VARIABLES
    current,     \* Parser.current: Option<Token>
    lexer,       \* Parser.lexer: the items the peekable token iterator still holds
    location,    \* Parser.location: Option<[u32; 2]>
    shape,       \* how the token stream was put together (see Shapes)
    input,       \* every item the token iterator was created with
    entry,       \* the parser state on entry to the last parse() call
    result,      \* what the last parse() call returned
    calls,       \* number of parse() calls made so far
    fname,       \* the built-in that was called last
    arguments,   \* the argument values handed to the built-in
    ret          \* what the built-in returned

vars == <<shape, input, current, lexer, location, entry, result, calls, fname, arguments, ret>>

None == <<>>
Some(x) == <<x>>
Ok(v) == <<"Ok", v>>
Err(e) == <<"Err", e>>
Ret(p, r) == [p |-> p, r |-> r]
IsErr(x) == x.r[1] = "Err"

syntax_error(loc, message) ==
    [category |-> "Syntax", message |-> message, location |-> loc]

logic_error(message) ==
    [category |-> "Logic", message |-> message, location |-> None]

from_data(d) == [data |-> d, location |-> None]

Token(data, loc) == [data |-> data, location |-> loc]

(***************************************************************************)
(* Parser::advance and Parser::peek_next_token                             *)
(***************************************************************************)
Drop(s, n) == IF n >= Len(s) THEN <<>> ELSE SubSeq(s, n + 1, Len(s))

\* advance() that leaves an error item in the token iterator
advance_keep_error(p, count) ==
    LET skipped == Drop(p.lexer, count - 1)
    IN  IF skipped = <<>>
        THEN Ret([current |-> None, lexer |-> <<>>, location |-> None], Ok(None))
        ELSE LET item == Head(skipped)
             IN  IF item[1] = "Err"
                 THEN Ret([p EXCEPT !.lexer = skipped], Err(item[2]))
                 ELSE Ret([current |-> Some(item[2]),
                           lexer |-> Tail(skipped),
                           location |-> item[2].location],
                          Ok(Some(item[2])))

advance(p, count) ==
    LET skipped == Drop(p.lexer, count - 1)
    IN  IF skipped = <<>>
        THEN Ret([current |-> None, lexer |-> <<>>, location |-> None], Ok(None))
        ELSE LET item == Head(skipped)
             IN  IF item[1] = "Err"
                 THEN Ret([p EXCEPT !.lexer = Tail(skipped)], Err(item[2]))
                 ELSE Ret([current |-> Some(item[2]),
                           lexer |-> Tail(skipped),
                           location |-> item[2].location],
                          Ok(Some(item[2])))

peek_next_token(p) ==
    IF p.lexer = <<>> THEN Ok(None)
    ELSE IF Head(p.lexer)[1] = "Err" THEN Err(Head(p.lexer)[2])
    ELSE Ok(Some(Head(p.lexer)[2]))

\* Option<Token>::take(): the token is moved out and current is left None
take(p) == [p EXCEPT !.current = None]

\* .map(|t| &t.data) on an Option<Token>
DataOf(tok) == IF tok = None THEN None ELSE Some(tok[1].data)
KindOf(tok) == IF tok = None THEN "None" ELSE tok[1].data[1]

locate(p, data) == [data |-> data, location |-> p.location]

into_expression(x) ==
    IF IsErr(x) THEN x ELSE Ret(x.p, Ok(Some(<<"Expression", x.r[2]>>)))

into_definition(x) ==
    IF IsErr(x) THEN x ELSE Ret(x.p, Ok(Some(<<"Definition", x.r[2]>>)))

into_statement(x) ==
    IF IsErr(x) THEN x ELSE Ret(x.p, Ok(Some(x.r[2])))

LiteralKinds ==
    {"Boolean", "Integer", "Real", "Rational", "Identifier", "Character",
     "String", "Period"}

get_identifier(p) ==
    IF KindOf(p.current) = "Identifier" THEN Ret(p, Ok(p.current[1].data[2]))
    ELSE IF p.current # None
    THEN Ret(p, Err(syntax_error(p.location, "expect an identifier, got {}")))
    ELSE Ret(p, Err(syntax_error(p.location,
                "expect an identifier while encountered end of input")))

get_identifier_pair(p) ==
    LET loc == p.location
        t1 == p.current
        a2 == advance(take(p), 1)
    IN  IF IsErr(a2) THEN a2 ELSE
        LET t2 == a2.p.current
            a3 == advance(take(a2.p), 1)
        IN  IF IsErr(a3) THEN a3 ELSE
            LET t3 == a3.p.current
                a4 == advance(take(a3.p), 1)
            IN  IF IsErr(a4) THEN a4 ELSE
                LET t4 == a4.p.current
                    q == take(a4.p)
                IN  IF /\ KindOf(t1) = "LeftParen"
                       /\ KindOf(t2) = "Identifier"
                       /\ KindOf(t3) = "Identifier"
                       /\ KindOf(t4) = "RightParen"
                    THEN Ret(q, Ok(<<t2[1].data[2], t3[1].data[2]>>))
                    ELSE Ret(q, Err(syntax_error(loc,
                         "expect an identifier pair: (ident1, ident2), got {:?}")))

(***************************************************************************)
(* The recursive-descent methods of Parser.                                *)
(***************************************************************************)
\* self.<method>(argument): every call from one method of Parser to another
RECURSIVE self_call(_, _, _)
RECURSIVE procedure_formals_loop(_, _)
RECURSIVE procedure_call_loop(_, _, _)
RECURSIVE body_partition(_, _, _, _)

\* the `"quote"` arm without the match on the token after the datum
quote_form_any_close(p) ==
    LET a == advance(p, 2)
    IN  IF IsErr(a) THEN a ELSE
        LET quoted == self_call("quote", a.p, None)
        IN  IF IsErr(quoted) THEN quoted ELSE
            LET b == advance(quoted.p, 1)
            IN  IF IsErr(b) THEN b ELSE Ret(take(b.p), quoted.r)

\* the `"quote"` arm of parse_current: (quote datum)
quote_form(p) ==
    LET a == advance(p, 2)
    IN  IF IsErr(a) THEN a ELSE
        LET quoted == self_call("quote", a.p, None)
        IN  IF IsErr(quoted) THEN quoted ELSE
            LET b == advance(quoted.p, 1)
            IN  IF IsErr(b) THEN b ELSE
                LET q == take(b.p)
                    k == KindOf(b.p.current)
                IN  IF k = "RightParen" THEN Ret(q, quoted.r)
                    ELSE IF k # "None"
                    THEN Ret(q, Err(syntax_error(q.location, "expect ), got {}")))
                    ELSE Ret(q, Err(syntax_error(q.location, "unclosed quotation!")))

\* the `TokenData::Quote` arm of parse_current: 'datum
quote_prefix(p) ==
    LET a == advance(p, 1)
    IN  IF IsErr(a) THEN a ELSE self_call("quote", a.p, None)

\* the `TokenData::LeftParen` arm of parse_current
left_paren(p) ==
    LET pk == peek_next_token(p)
    IN  IF pk[1] = "Err" THEN Ret(p, pk)
        ELSE IF KindOf(pk[2]) = "Identifier"
        THEN LET ident == pk[2][1].data[2]
             IN  CASE ident = "lambda" -> into_expression(self_call("lambda", p, None))
                   [] ident = "quote"  -> into_expression(quote_form(p))
                   [] ident = "define" -> into_definition(self_call("definition", p, None))
                   [] ident = "set!"   -> into_expression(self_call("assginment", p, None))
                   [] ident = "import" -> into_statement(self_call("import_declaration", p, None))
                   [] ident = "if"     -> into_expression(self_call("condition", p, None))
                   [] OTHER            -> into_expression(self_call("procedure_call", p, None))
        ELSE IF KindOf(pk[2]) = "RightParen"
        THEN Ret(p, Err(syntax_error(pk[2][1].location, "empty procedure call")))
        ELSE into_expression(self_call("procedure_call", p, None))

parse_current(p) ==
    IF p.current = None THEN Ret(p, Ok(None))
    ELSE LET data == p.current[1].data
             loc == p.current[1].location
             q == take(p)
             kind == data[1]
         IN  CASE kind \in LiteralKinds ->
                    Ret(q, Ok(Some(<<"Expression", [data |-> data, location |-> loc]>>)))
               [] kind = "LeftParen" -> left_paren(q)
               [] kind = "RightParen" ->
                    Ret(q, Err(syntax_error(loc, "Unmatched Parentheses!")))
               [] kind = "VecConsIntro" -> into_expression(self_call("vector", q, None))
               [] kind = "Quote" -> into_expression(quote_prefix(q))
               [] OTHER -> Ret(q, Err(syntax_error(loc, "unsupported grammar")))

parse_current_expression(p) ==
    LET s == self_call("parse_current", p, None)
    IN  IF IsErr(s) THEN s
        ELSE IF s.r[2] # None /\ s.r[2][1][1] = "Expression"
        THEN Ret(s.p, Ok(s.r[2][1][2]))
        ELSE Ret(s.p, Err(syntax_error(s.p.location, "expect a expression here")))

\* parse() that dispatches on current without advancing to the next token first
parse_without_advance(p) == self_call("parse_current", p, None)

\* parse() that advances only when no current token is left
parse_keep_current(p) ==
    IF p.current # None THEN self_call("parse_current", p, None)
    ELSE LET a == advance(p, 1)
         IN  IF IsErr(a) THEN a ELSE self_call("parse_current", a.p, None)

parse(p) ==
    LET a == advance(p, 1)
    IN  IF IsErr(a) THEN a ELSE self_call("parse_current", a.p, None)

\* get_element, the method collect reads each element with, is named by elem
collect(p, elem) ==
    LET pk == peek_next_token(p)
    IN  IF pk[1] = "Err" THEN Ret(p, pk)
        ELSE IF pk[2] = None
        THEN Ret(p, Err(syntax_error(p.location, "unexpect end of input")))
        ELSE LET a == advance(p, 1)
             IN  IF IsErr(a) THEN a
                 ELSE IF KindOf(pk[2]) = "RightParen" THEN Ret(a.p, Ok(<<>>))
                 ELSE LET e == self_call(elem, a.p, None)
                      IN  IF IsErr(e) THEN e ELSE
                          LET rest == self_call("collect", e.p, elem)
                          IN  IF IsErr(rest) THEN rest
                              ELSE Ret(rest.p, Ok(<<e.r[2]>> \o rest.r[2]))

vector(p) ==
    LET c == self_call("collect", p, "datum")
    IN  IF IsErr(c) THEN c ELSE Ret(c.p, Ok(locate(c.p, <<"Vector", c.r[2]>>)))

quote(p) ==
    LET inner == self_call("datum", p, None)
    IN  IF IsErr(inner) THEN inner
        ELSE Ret(inner.p, Ok(locate(inner.p, <<"Quote", inner.r[2]>>)))

\* datum() that reads a parenthesised group as parse_current does
datum_as_code(p) ==
    LET k == KindOf(p.current)
    IN  CASE k = "VecConsIntro" ->
               LET seq == self_call("collect", p, "datum")
               IN  IF IsErr(seq) THEN seq
                   ELSE Ret(seq.p, Ok(locate(seq.p, <<"Vector", seq.r[2]>>)))
          [] k = "None" -> Ret(p, Err(syntax_error(p.location, "expect a literal")))
          [] OTHER -> parse_current_expression(p)

datum(p) ==
    LET k == KindOf(p.current)
    IN  CASE k = "LeftParen" ->
               LET seq == self_call("collect", p, "datum")
               IN  IF IsErr(seq) THEN seq
                   ELSE Ret(seq.p, Ok(locate(seq.p, <<"List", seq.r[2]>>)))
          [] k = "VecConsIntro" ->
               LET seq == self_call("collect", p, "datum")
               IN  IF IsErr(seq) THEN seq
                   ELSE Ret(seq.p, Ok(locate(seq.p, <<"Vector", seq.r[2]>>)))
          [] k = "None" -> Ret(p, Err(syntax_error(p.location, "expect a literal")))
          [] OTHER -> parse_current_expression(p)

\* ParameterFormals::new()
new_formals == <<(<<>>), None>>

\* the loop of procedure_formals with each parameter put in front of the earlier
\* ones
procedure_formals_loop_prepend(p, formals) ==
    LET pk == peek_next_token(p)
    IN  IF pk[1] = "Err" THEN Ret(p, pk)
        ELSE LET k == KindOf(pk[2])
             IN  CASE k = "RightParen" ->
                        LET a == advance(p, 1)
                        IN  IF IsErr(a) THEN a ELSE Ret(a.p, Ok(formals))
                   [] k = "Period" ->
                        IF Len(formals[1]) = 0
                        THEN Ret(p, Err(syntax_error(p.location,
                             "must provide at least normal parameter before variadic parameter")))
                        ELSE LET a == advance(p, 2)
                             IN  IF IsErr(a) THEN a ELSE
                                 LET id == get_identifier(a.p)
                                 IN  IF IsErr(id) THEN id
                                     ELSE procedure_formals_loop(id.p,
                                              <<formals[1], Some(id.r[2])>>)
                   [] k = "None" ->
                        Ret(p, Err(syntax_error(p.location, "unexpect end of input")))
                   [] OTHER ->
                        LET a == advance(p, 1)
                        IN  IF IsErr(a) THEN a ELSE
                            LET id == get_identifier(a.p)
                            IN  IF IsErr(id) THEN id
                                ELSE procedure_formals_loop(id.p,
                                         <<(<<id.r[2]>>) \o formals[1], formals[2]>>)

\* the loop of procedure_formals, formals being its accumulator
procedure_formals_loop(p, formals) ==
    LET pk == peek_next_token(p)
    IN  IF pk[1] = "Err" THEN Ret(p, pk)
        ELSE LET k == KindOf(pk[2])
             IN  CASE k = "RightParen" ->
                        LET a == advance(p, 1)
                        IN  IF IsErr(a) THEN a ELSE Ret(a.p, Ok(formals))
                   [] k = "Period" ->
                        IF Len(formals[1]) = 0
                        THEN Ret(p, Err(syntax_error(p.location,
                             "must provide at least normal parameter before variadic parameter")))
                        ELSE LET a == advance(p, 2)
                             IN  IF IsErr(a) THEN a ELSE
                                 LET id == get_identifier(a.p)
                                 IN  IF IsErr(id) THEN id
                                     ELSE procedure_formals_loop(id.p,
                                              <<formals[1], Some(id.r[2])>>)
                   [] k = "None" ->
                        Ret(p, Err(syntax_error(p.location, "unexpect end of input")))
                   [] OTHER ->
                        LET a == advance(p, 1)
                        IN  IF IsErr(a) THEN a ELSE
                            LET id == get_identifier(a.p)
                            IN  IF IsErr(id) THEN id
                                ELSE procedure_formals_loop(id.p,
                                         <<Append(formals[1], id.r[2]), formals[2]>>)

procedure_formals(p) == procedure_formals_loop(p, new_formals)

lambda(p) ==
    LET loc == p.location
        a == advance(p, 2)
    IN  IF IsErr(a) THEN a ELSE
        LET k == KindOf(a.p.current)
            q == take(a.p)
        IN  CASE k = "Identifier" ->
                   self_call("procedure_body", q, <<(<<>>), Some(a.p.current[1].data[2])>>)
              [] k = "LeftParen" ->
                   LET f == procedure_formals(q)
                   IN  IF IsErr(f) THEN f ELSE self_call("procedure_body", f.p, f.r[2])
              [] OTHER -> Ret(q, Err(syntax_error(loc, "expect formal identifiers")))

\* the for loop of procedure_body without the expressions.is_empty() test: a
\* definition is accepted wherever it stands
body_partition_any_order(loc, statements, definitions, expressions) ==
    IF statements = <<>> THEN Ok(<<definitions, expressions>>)
    ELSE LET statement == Head(statements)
         IN  IF statement = None
             THEN Err(syntax_error(loc, "lambda body empty"))
             ELSE CASE statement[1][1] = "Definition" ->
                         body_partition(loc, Tail(statements),
                                  Append(definitions, statement[1][2]), expressions)
                    [] statement[1][1] = "Expression" ->
                         body_partition(loc, Tail(statements), definitions,
                                  Append(expressions, statement[1][2]))
                    [] OTHER ->
                         Err(syntax_error(loc,
                             "procedure body can only contains definition or expression"))

\* the for loop of procedure_body over statements[i..], with its two vectors
body_partition(loc, statements, definitions, expressions) ==
    IF statements = <<>> THEN Ok(<<definitions, expressions>>)
    ELSE LET statement == Head(statements)
         IN  IF statement = None
             THEN Err(syntax_error(loc, "lambda body empty"))
             ELSE CASE statement[1][1] = "Definition" ->
                         IF expressions = <<>>
                         THEN body_partition(loc, Tail(statements),
                                  Append(definitions, statement[1][2]), expressions)
                         ELSE Err(syntax_error(loc, "unexpect definition af expression"))
                    [] statement[1][1] = "Expression" ->
                         body_partition(loc, Tail(statements), definitions,
                                  Append(expressions, statement[1][2]))
                    [] OTHER ->
                         Err(syntax_error(loc,
                             "procedure body can only contains definition or expression"))

procedure_body(p, formals) ==
    LET statements == self_call("collect", p, "parse_current")
    IN  IF IsErr(statements) THEN statements ELSE
        LET q == statements.p
            parts == body_partition(q.location, statements.r[2], <<>>, <<>>)
        IN  IF parts[1] = "Err" THEN Ret(q, parts)
            ELSE IF parts[2][2] = <<>>
            THEN Ret(q, Err(syntax_error(q.location, "no expression in procedure body")))
            ELSE Ret(q, Ok(locate(q, <<"Procedure",
                                       <<formals, parts[2][1], parts[2][2]>>>>)))

import_declaration(p) ==
    LET a == advance(p, 1)
    IN  IF IsErr(a) THEN a ELSE
        LET c == self_call("collect", a.p, "import_set")
        IN  IF IsErr(c) THEN c ELSE Ret(c.p, Ok(<<"ImportDeclaration", c.r[2]>>))

\* condition() that leaves the RightParen of a form without alternative unread
condition_keep_paren(p) ==
    LET a == advance(p, 1)
    IN  IF IsErr(a) THEN a ELSE
        LET s1 == self_call("parse", a.p, None)
        IN  IF IsErr(s1) THEN s1 ELSE
            LET s2 == self_call("parse", s1.p, None)
            IN  IF IsErr(s2) THEN s2 ELSE
                LET q == s2.p
                    pk == peek_next_token(q)
                    IsExpr(s) == s # None /\ s[1][1] = "Expression"
                IN  IF pk[1] = "Err" THEN Ret(q, pk)
                    ELSE IF IsExpr(s1.r[2]) /\ IsExpr(s2.r[2]) /\ KindOf(pk[2]) = "RightParen"
                    THEN Ret(q, Ok(locate(q, <<"Conditional",
                                      <<s1.r[2][1][2], s2.r[2][1][2], None>>>>)))
                    ELSE IF IsExpr(s1.r[2]) /\ IsExpr(s2.r[2]) /\ pk[2] # None
                    THEN LET s3 == self_call("parse", q, None)
                         IN  IF IsErr(s3) THEN s3
                             ELSE IF IsExpr(s3.r[2])
                             THEN LET b == advance(s3.p, 1)
                                  IN  IF IsErr(b) THEN b
                                      ELSE Ret(b.p, Ok(locate(b.p, <<"Conditional",
                                               <<s1.r[2][1][2], s2.r[2][1][2],
                                                 Some(s3.r[2][1][2])>>>>)))
                             ELSE Ret(s3.p, Err(syntax_error(s3.p.location,
                                      "expect condition alternatives, got {:?}")))
                    ELSE Ret(q, Err(syntax_error(q.location, "conditional syntax error")))

condition(p) ==
    LET a == advance(p, 1)
    IN  IF IsErr(a) THEN a ELSE
        LET s1 == self_call("parse", a.p, None)
        IN  IF IsErr(s1) THEN s1 ELSE
            LET s2 == self_call("parse", s1.p, None)
            IN  IF IsErr(s2) THEN s2 ELSE
                LET q == s2.p
                    pk == peek_next_token(q)
                    IsExpr(s) == s # None /\ s[1][1] = "Expression"
                IN  IF pk[1] = "Err" THEN Ret(q, pk)
                    ELSE IF IsExpr(s1.r[2]) /\ IsExpr(s2.r[2]) /\ KindOf(pk[2]) = "RightParen"
                    THEN LET b == advance(q, 1)
                         IN  IF IsErr(b) THEN b
                             ELSE Ret(b.p, Ok(locate(b.p, <<"Conditional",
                                      <<s1.r[2][1][2], s2.r[2][1][2], None>>>>)))
                    ELSE IF IsExpr(s1.r[2]) /\ IsExpr(s2.r[2]) /\ pk[2] # None
                    THEN LET s3 == self_call("parse", q, None)
                         IN  IF IsErr(s3) THEN s3
                             ELSE IF IsExpr(s3.r[2])
                             THEN LET b == advance(s3.p, 1)
                                  IN  IF IsErr(b) THEN b
                                      ELSE Ret(b.p, Ok(locate(b.p, <<"Conditional",
                                               <<s1.r[2][1][2], s2.r[2][1][2],
                                                 Some(s3.r[2][1][2])>>>>)))
                             ELSE Ret(s3.p, Err(syntax_error(s3.p.location,
                                      "expect condition alternatives, got {:?}")))
                    ELSE Ret(q, Err(syntax_error(q.location, "conditional syntax error")))

\* Only / Except / Rename: advance, the inner import set, then the collected list
\* an import set with sub set that reads the names before the inner set
import_set_with_names_first(p, loc, variant, elem) ==
    LET c == self_call("collect", p, elem)
    IN  IF IsErr(c) THEN c ELSE
        LET a == advance(c.p, 1)
        IN  IF IsErr(a) THEN a ELSE
            LET inner == self_call("import_set", a.p, None)
            IN  IF IsErr(inner) THEN inner
                ELSE Ret(inner.p, Ok([data |-> <<variant, inner.r[2], c.r[2]>>,
                                      location |-> loc]))

import_set_with(p, loc, variant, elem) ==
    LET a == advance(p, 1)
    IN  IF IsErr(a) THEN a ELSE
        LET inner == self_call("import_set", a.p, None)
        IN  IF IsErr(inner) THEN inner ELSE
            LET c == self_call("collect", inner.p, elem)
            IN  IF IsErr(c) THEN c
                ELSE Ret(c.p, Ok([data |-> <<variant, inner.r[2], c.r[2]>>,
                                  location |-> loc]))

import_set(p) ==
    LET import_declaration_loc == p.location
        k == KindOf(p.current)
        q == take(p)
    IN  CASE k = "Identifier" ->
               Ret(q, Ok([data |-> <<"Direct", p.current[1].data[2]>>,
                          location |-> p.current[1].location]))
          [] k = "LeftParen" ->
               LET loc == p.current[1].location
                   a == advance(q, 1)
               IN  IF IsErr(a) THEN a ELSE
                   LET r == take(a.p)
                   IN  IF KindOf(a.p.current) = "Identifier"
                       THEN LET ident == a.p.current[1].data[2]
                            IN  CASE ident = "only" ->
                                       import_set_with(r, loc, "Only", "get_identifier")
                                  [] ident = "except" ->
                                       import_set_with(r, loc, "Except", "get_identifier")
                                  [] ident = "prefix" ->
                                       LET b == advance(r, 2)
                                       IN  IF IsErr(b) THEN b
                                           ELSE IF KindOf(b.p.current) = "Identifier"
                                           THEN LET inner == self_call("import_set", take(b.p), None)
                                                IN  IF IsErr(inner) THEN inner
                                                    ELSE Ret(inner.p, Ok([data |-> <<"Prefix", inner.r[2],
                                                                 b.p.current[1].data[2]>>,
                                                             location |-> loc]))
                                           ELSE Ret(take(b.p), Err(syntax_error(loc,
                                                    "expect a prefix name after import")))
                                  [] ident = "rename" ->
                                       import_set_with(r, loc, "Rename", "get_identifier_pair")
                                  [] OTHER ->
                                       Ret(r, Err(syntax_error(loc,
                                           "import: expect sub import set")))
                       ELSE Ret(r, Err(syntax_error(loc,
                                "import: expect library name or sub import sets")))
          [] OTHER ->
               Ret(q, Err(syntax_error(import_declaration_loc,
                   "expect an import set, got {:?}")))

\* the value arm without the test for the closing RightParen
value_without_paren(p, loc, message) ==
    LET s == self_call("parse", p, None)
    IN  IF IsErr(s) THEN s ELSE
        LET a == advance(s.p, 1)
        IN  IF IsErr(a) THEN a ELSE
            LET q == take(a.p)
            IN  IF /\ s.r[2] # None
                   /\ s.r[2][1][1] = "Expression"
                THEN Ret(q, Ok(s.r[2][1][2]))
                ELSE Ret(q, Err(syntax_error(loc, message)))

\* the `(self.parse()?, self.advance(1)?.take())` match shared by the first arm of
\* definition and of assginment: Ok(expr) when an expression and then ) were read
value_then_paren(p, loc, message) ==
    LET s == self_call("parse", p, None)
    IN  IF IsErr(s) THEN s ELSE
        LET a == advance(s.p, 1)
        IN  IF IsErr(a) THEN a ELSE
            LET q == take(a.p)
            IN  IF /\ s.r[2] # None
                   /\ s.r[2][1][1] = "Expression"
                   /\ KindOf(a.p.current) = "RightParen"
                THEN Ret(q, Ok(s.r[2][1][2]))
                ELSE Ret(q, Err(syntax_error(loc, message)))

definition(p) ==
    LET loc == p.location
        a == advance(p, 2)
        message == "define: expect identifier and expression"
    IN  IF IsErr(a) THEN a ELSE
        LET k == KindOf(a.p.current)
            q == take(a.p)
        IN  CASE k = "Identifier" ->
                   LET v == value_then_paren(q, loc, message)
                   IN  IF IsErr(v) THEN v
                       ELSE Ret(v.p, Ok(from_data(<<a.p.current[1].data[2], v.r[2]>>)))
              [] k = "LeftParen" ->
                   LET b == advance(q, 1)
                   IN  IF IsErr(b) THEN b
                       ELSE IF KindOf(b.p.current) = "Identifier"
                       THEN LET identifier == b.p.current[1].data[2]
                                r == take(b.p)
                                pk == peek_next_token(r)
                                formals ==
                                    IF pk[1] = "Err" THEN Ret(r, pk)
                                    ELSE IF KindOf(pk[2]) = "Period"
                                    THEN LET c == advance(r, 2)
                                         IN  IF IsErr(c) THEN c ELSE
                                             LET id == get_identifier(c.p)
                                             IN  IF IsErr(id) THEN id ELSE
                                                 LET d == advance(id.p, 1)
                                                 IN  IF IsErr(d) THEN d
                                                     ELSE Ret(d.p, Ok(<<(<<>>), Some(id.r[2])>>))
                                    ELSE procedure_formals(r)
                            IN  IF IsErr(formals) THEN formals ELSE
                                LET body == self_call("procedure_body", formals.p, formals.r[2])
                                IN  IF IsErr(body) THEN body
                                    ELSE Ret(body.p, Ok(from_data(<<identifier, body.r[2]>>)))
                       ELSE Ret(take(b.p), Err(syntax_error(loc, message)))
              [] OTHER -> Ret(q, Err(syntax_error(loc, message)))

assginment(p) ==
    LET loc == p.location
        a == advance(p, 2)
    IN  IF IsErr(a) THEN a ELSE
        LET k == KindOf(a.p.current)
            q == take(a.p)
        IN  CASE k = "Identifier" ->
                   LET v == value_then_paren(q, loc,
                                "define: expect identifier and expression")
                   IN  IF IsErr(v) THEN v
                       ELSE Ret(v.p, Ok(locate(v.p,
                                <<"Assignment", a.p.current[1].data[2], v.r[2]>>)))
              [] k = "LeftParen" ->
                   LET b == advance(q, 1)
                   IN  IF IsErr(b) THEN b
                       ELSE IF KindOf(b.p.current) = "Identifier"
                       THEN LET identifier == b.p.current[1].data[2]
                                formals == procedure_formals(take(b.p))
                            IN  IF IsErr(formals) THEN formals ELSE
                                LET body == self_call("procedure_body", formals.p, formals.r[2])
                                IN  IF IsErr(body) THEN body
                                    ELSE Ret(body.p, Ok(locate(body.p,
                                             <<"Assignment", identifier, body.r[2]>>)))
                       ELSE Ret(take(b.p), Err(syntax_error(loc,
                                "set!: expect identifier and expression")))
              [] OTHER -> Ret(q, Err(syntax_error(loc,
                              "set!: expect identifier and expression")))

\* the loop of procedure_call with each argument put in front of the earlier ones
procedure_call_loop_prepend(p, operator, args) ==
    LET pk == peek_next_token(p)
    IN  IF pk[1] = "Err" THEN Ret(p, pk)
        ELSE LET k == KindOf(pk[2])
             IN  CASE k = "RightParen" ->
                        LET a == advance(p, 1)
                        IN  IF IsErr(a) THEN a
                            ELSE Ret(a.p, Ok(locate(a.p,
                                     <<"ProcedureCall", operator, args>>)))
                   [] k = "None" ->
                        Ret(p, Err(syntax_error(p.location, "Unmatched Parentheses!")))
                   [] OTHER ->
                        LET s == self_call("parse", p, None)
                        IN  IF IsErr(s) THEN s
                            ELSE IF s.r[2] # None /\ s.r[2][1][1] = "Expression"
                            THEN procedure_call_loop(s.p, operator,
                                     <<s.r[2][1][2]>> \o args)
                            ELSE Ret(s.p, Err(syntax_error(s.p.location,
                                     "Unmatched Parentheses!")))

\* the loop of procedure_call that reports the end of input at the operator
procedure_call_loop_at_operator(p, operator, args) ==
    LET pk == peek_next_token(p)
    IN  IF pk[1] = "Err" THEN Ret(p, pk)
        ELSE LET k == KindOf(pk[2])
             IN  CASE k = "RightParen" ->
                        LET a == advance(p, 1)
                        IN  IF IsErr(a) THEN a
                            ELSE Ret(a.p, Ok(locate(a.p,
                                     <<"ProcedureCall", operator, args>>)))
                   [] k = "None" ->
                        Ret(p, Err(syntax_error(operator.location,
                                   "Unmatched Parentheses!")))
                   [] OTHER ->
                        LET s == self_call("parse", p, None)
                        IN  IF IsErr(s) THEN s
                            ELSE IF s.r[2] # None /\ s.r[2][1][1] = "Expression"
                            THEN procedure_call_loop(s.p, operator,
                                     Append(args, s.r[2][1][2]))
                            ELSE Ret(s.p, Err(syntax_error(s.p.location,
                                     "Unmatched Parentheses!")))

\* the loop of procedure_call, arguments being its accumulator
procedure_call_loop(p, operator, args) ==
    LET pk == peek_next_token(p)
    IN  IF pk[1] = "Err" THEN Ret(p, pk)
        ELSE LET k == KindOf(pk[2])
             IN  CASE k = "RightParen" ->
                        LET a == advance(p, 1)
                        IN  IF IsErr(a) THEN a
                            ELSE Ret(a.p, Ok(locate(a.p,
                                     <<"ProcedureCall", operator, args>>)))
                   [] k = "None" ->
                        Ret(p, Err(syntax_error(p.location, "Unmatched Parentheses!")))
                   [] OTHER ->
                        LET s == self_call("parse", p, None)
                        IN  IF IsErr(s) THEN s
                            ELSE IF s.r[2] # None /\ s.r[2][1][1] = "Expression"
                            THEN procedure_call_loop(s.p, operator,
                                     Append(args, s.r[2][1][2]))
                            ELSE Ret(s.p, Err(syntax_error(s.p.location,
                                     "Unmatched Parentheses!")))

procedure_call(p) ==
    LET s == self_call("parse", p, None)
    IN  IF IsErr(s) THEN s
        ELSE IF s.r[2] # None /\ s.r[2][1][1] = "Expression"
        THEN procedure_call_loop(s.p, s.r[2][1][2], <<>>)
        ELSE Ret(s.p, Err(syntax_error(s.p.location,
                 "operator should be an expression")))

\* the item Iterator::next makes of the result of parse()
next_item(r) ==
    CASE r[1] = "Err" -> Some(r)
      [] r[2] = None -> None
      [] OTHER -> Some(Ok(r[2][1]))

\* Iterator::next
next(p) ==
    LET x == self_call("parse", p, None)
    IN  Ret(x.p, next_item(x.r))

\* the method of Parser that a call names, applied to the parser p
self_call(method, p, argument) ==
    CASE method = "parse" -> parse(p)
      [] method = "parse_current" -> parse_current(p)
      [] method = "collect" -> collect(p, argument)
      [] method = "vector" -> vector(p)
      [] method = "quote" -> quote(p)
      [] method = "datum" -> datum(p)
      [] method = "lambda" -> lambda(p)
      [] method = "procedure_body" -> procedure_body(p, argument)
      [] method = "import_declaration" -> import_declaration(p)
      [] method = "condition" -> condition(p)
      [] method = "import_set" -> import_set(p)
      [] method = "definition" -> definition(p)
      [] method = "assginment" -> assginment(p)
      [] method = "procedure_call" -> procedure_call(p)
      [] method = "get_identifier" -> get_identifier(p)
      [] method = "get_identifier_pair" -> get_identifier_pair(p)

(***************************************************************************)
(* The number model that base.rs computes with (crate::interpreter).  A    *)
(* Number is <<"Integer", i>>, <<"Rational", n, d>> or <<"Real", n, d>>;    *)
(* a Real is held as the fraction n/d it equals, which is exact for the    *)
(* dyadic values the model draws its arguments from.                       *)
(***************************************************************************)
Abs(i) == IF i < 0 THEN -i ELSE i

RECURSIVE Gcd(_, _)
Gcd(a, b) == IF b = 0 THEN a ELSE Gcd(b, a % b)

\* numerator and denominator of any Number, denominator >= 1
Num(x) == x[2]
Den(x) == IF x[1] = "Integer" THEN 1 ELSE x[3]

IsExact(x) == x[1] # "Real"

\* gcd-reduced fraction with the sign on the numerator
Reduced(n, d) ==
    LET g == Gcd(Abs(n), Abs(d))
        s == IF d < 0 THEN -1 ELSE 1
    IN  <<(s * n) \div g, (s * d) \div g>>

\* the Rational constructor: canonical form, an Integer when the denominator is 1
MakeExact(n, d) ==
    LET f == Reduced(n, d)
    IN  IF f[2] = 1 THEN <<"Integer", f[1]>> ELSE <<"Rational", f[1], f[2]>>

MakeReal(n, d) == LET f == Reduced(n, d) IN <<"Real", f[1], f[2]>>

\* the least variant covering both operands: Integer < Rational < Real
MakeLike(a, b, n, d) ==
    IF IsExact(a) /\ IsExact(b) THEN MakeExact(n, d) ELSE MakeReal(n, d)

NumberAdd(a, b) == MakeLike(a, b, Num(a) * Den(b) + Num(b) * Den(a), Den(a) * Den(b))
NumberSub(a, b) == MakeLike(a, b, Num(a) * Den(b) - Num(b) * Den(a), Den(a) * Den(b))
NumberMul(a, b) == MakeLike(a, b, Num(a) * Num(b), Den(a) * Den(b))
NumberDiv(a, b) ==
    IF Num(b) = 0 THEN Err(logic_error("division by zero"))
    ELSE Ok(MakeLike(a, b, Num(a) * Den(b), Den(a) * Num(b)))

NumberLess(a, b) == Num(a) * Den(b) < Num(b) * Den(a)
NumberEq(a, b) == Num(a) * Den(b) = Num(b) * Den(a)

NumberCompare(operator, a, b) ==
    CASE operator = "==" -> NumberEq(a, b)
      [] operator = "<"  -> NumberLess(a, b)
      [] operator = "<=" -> NumberLess(a, b) \/ NumberEq(a, b)
      [] operator = ">"  -> NumberLess(b, a)
      [] operator = ">=" -> NumberLess(b, a) \/ NumberEq(a, b)

\* the promoted pair keeps each side's operand, so that the winner of min / max
\* is reported as it was given
upcast_oprands(a, b) == [lhs |-> a, rhs |-> b]

IsSquare(n) == \E k \in 0..n : k * k = n
Root(n) == CHOOSE k \in 0..n : k * k = n

\* sqrt: the exact root of a perfect square, otherwise an inexact value that
\* the model keeps symbolic
NumberSqrt(x) ==
    IF Num(x) >= 0 /\ IsSquare(Num(x)) /\ IsSquare(Den(x))
    THEN IF IsExact(x) THEN MakeExact(Root(Num(x)), Root(Den(x)))
         ELSE MakeReal(Root(Num(x)), Root(Den(x)))
    ELSE <<"Real.sqrt", x>>

NumberFloor(x) ==
    IF IsExact(x) THEN <<"Integer", Num(x) \div Den(x)>>
    ELSE MakeReal(Num(x) \div Den(x), 1)

NumberCeiling(x) ==
    IF IsExact(x) THEN <<"Integer", -((-Num(x)) \div Den(x))>>
    ELSE MakeReal(-((-Num(x)) \div Den(x)), 1)

NumberExact(x) == Ok(MakeExact(Num(x), Den(x)))

\* floor(a / b) for any b # 0
FloorDiv(a, b) == IF b > 0 THEN a \div b ELSE (-a) \div (-b)

NumberFloorQuotient(a, b) ==
    IF Num(b) = 0 THEN Err(logic_error("division by zero"))
    ELSE IF a[1] = "Integer" /\ b[1] = "Integer"
    THEN Ok(<<"Integer", FloorDiv(a[2], b[2])>>)
    ELSE Ok(<<"floor-quotient", a, b>>)

NumberFloorRemainder(a, b) ==
    IF Num(b) = 0 THEN Err(logic_error("division by zero"))
    ELSE IF a[1] = "Integer" /\ b[1] = "Integer"
    THEN Ok(<<"Integer", a[2] - b[2] * FloorDiv(a[2], b[2])>>)
    ELSE Ok(<<"floor-remainder", a, b>>)

(***************************************************************************)
(* The built-in procedures of base.rs.  A Value is <<"Number", n>>,        *)
(* <<"Boolean", b>>, <<"String", s>>, <<"Vector", seq>> or <<"Void">>.  A   *)
(* built-in maps the argument sequence to [r |-> its Result, used |-> how  *)
(* many arguments it has pulled from the iterator when it returns].        *)
(***************************************************************************)
Number(n) == <<"Number", n>>
IsNumber(v) == v[1] = "Number"
Out(r, used) == [r |-> r, used |-> used]

\* num1 <op> num2 inside the fold closures of add, sub, mul and div
Arith(op, a, b) ==
    CASE op = "+" -> Ok(NumberAdd(a, b))
      [] op = "-" -> Ok(NumberSub(a, b))
      [] op = "*" -> Ok(NumberMul(a, b))
      [] op = "/" -> NumberDiv(a, b)

\* Iterator::try_fold with the closure of add / sub / mul / div, from argument i on
RECURSIVE try_fold(_, _, _, _)
try_fold(op, acc, args, i) ==
    IF i > Len(args) THEN Out(Ok(Number(acc)), Len(args))
    ELSE IF ~IsNumber(args[i])
    THEN Out(Err(logic_error("expect a number, got {}")), i)
    ELSE LET v == Arith(op, acc, args[i][2])
         IN  IF v[1] = "Err" THEN Out(v, i) ELSE try_fold(op, v[2], args, i + 1)

add(args) == try_fold("+", <<"Integer", 0>>, args, 1)

mul(args) == try_fold("*", <<"Integer", 1>>, args, 1)

\* the `init` match shared in shape by sub and div
fold_from_first(op, unit, args, none_message) ==
    IF Len(args) = 0 THEN Out(Err(logic_error(none_message)), 0)
    ELSE IF ~IsNumber(args[1])
    THEN Out(Err(logic_error("expect a number, got {}")), 1)
    ELSE IF Len(args) = 1
    THEN LET v == Arith(op, unit, args[1][2])
         IN  IF v[1] = "Err" THEN Out(v, 1) ELSE try_fold(op, v[2], args, 2)
    ELSE IF ~IsNumber(args[2])
    THEN Out(Err(logic_error("expect a number, got {}")), 2)
    ELSE LET v == Arith(op, args[1][2], args[2][2])
         IN  IF v[1] = "Err" THEN Out(v, 2) ELSE try_fold(op, v[2], args, 3)

\* '-' folded from Integer(0) over every argument, as add is
sub_from_zero(args) == try_fold("-", <<"Integer", 0>>, args, 1)

sub(args) ==
    fold_from_first("-", <<"Integer", 0>>, args, "'-' needs at least one argument")

div(args) ==
    fold_from_first("/", <<"Integer", 1>>, args, "'/' needs at least one argument")

\* number.$func() in numeric_one_argument!, with the ? that exact carries
NumberUnary(func, x) ==
    CASE func = "sqrt" -> Ok(NumberSqrt(x))
      [] func = "floor" -> Ok(NumberFloor(x))
      [] func = "ceiling" -> Ok(NumberCeiling(x))
      [] func = "exact" -> NumberExact(x)

numeric_one_argument(name, args) ==
    IF Len(args) = 0
    THEN Out(Err(logic_error(name \o " takes exactly one argument")), 0)
    ELSE IF IsNumber(args[1])
    THEN LET v == NumberUnary(name, args[1][2])
         IN  IF v[1] = "Err" THEN Out(v, 1) ELSE Out(Ok(Number(v[2])), 1)
    ELSE Out(Err(logic_error(name \o " requires a number, got {:?}")), 1)

sqrt(args) == numeric_one_argument("sqrt", args)
floor(args) == numeric_one_argument("floor", args)
ceiling(args) == numeric_one_argument("ceiling", args)
exact(args) == numeric_one_argument("exact", args)

\* lhs.$func(rhs)? in numeric_two_arguments!
NumberBinary(func, a, b) ==
    CASE func = "floor-quotient" -> NumberFloorQuotient(a, b)
      [] func = "floor-remainder" -> NumberFloorRemainder(a, b)

\* numeric_two_arguments! that counts its arguments before it looks at them
numeric_two_arguments_count_first(name, args) ==
    IF Len(args) < 2
    THEN Out(Err(logic_error(name \o " takes exactly two arguments")), Len(args))
    ELSE IF ~IsNumber(args[1]) THEN Out(Err(logic_error("expect a number!")), 1)
    ELSE IF ~IsNumber(args[2]) THEN Out(Err(logic_error("expect a number!")), 2)
    ELSE LET v == NumberBinary(name, args[1][2], args[2][2])
         IN  IF v[1] = "Err" THEN Out(v, 2) ELSE Out(Ok(Number(v[2])), 2)

numeric_two_arguments(name, args) ==
    IF Len(args) = 0
    THEN Out(Err(logic_error(name \o " takes exactly two arguments")), 0)
    ELSE IF ~IsNumber(args[1]) THEN Out(Err(logic_error("expect a number!")), 1)
    ELSE IF Len(args) = 1
    THEN Out(Err(logic_error(name \o " takes exactly two arguments")), 1)
    ELSE IF ~IsNumber(args[2]) THEN Out(Err(logic_error("expect a number!")), 2)
    ELSE LET v == NumberBinary(name, args[1][2], args[2][2])
         IN  IF v[1] = "Err" THEN Out(v, 2) ELSE Out(Ok(Number(v[2])), 2)

floor_quotient(args) == numeric_two_arguments("floor-quotient", args)
floor_remainder(args) == numeric_two_arguments("floor-remainder", args)

base_vector(args) == Out(Ok(<<"Vector", args>>), Len(args))

\* `i as usize` for an i32: a negative i wraps to a value of at least 2^31, which
\* is held here as the largest index the model can count to
UsizeWrap == 2147483647
\* an index conversion that drops the sign
as_usize_abs(i) == Abs(i)

as_usize(i) == IF i >= 0 THEN i ELSE UsizeWrap

\* Vec::get
get(v, k) == IF k < Len(v) THEN Some(v[k + 1]) ELSE None

vector_ref(args) ==
    IF Len(args) = 0
    THEN Out(Err(logic_error("vector_ref requires exactly two argument")), 0)
    ELSE IF args[1][1] = "Vector"
    THEN IF Len(args) = 1
         THEN Out(Err(logic_error("vector_ref requires exactly two argument")), 1)
         ELSE IF IsNumber(args[2]) /\ args[2][2][1] = "Integer"
         THEN LET value == get(args[1][2], as_usize(args[2][2][2]))
              IN  IF value # None THEN Out(Ok(value[1]), 2)
                  ELSE Out(Err(logic_error("vector index out of bound")), 2)
         ELSE Out(Err(logic_error("expect a integer!")), 2)
    ELSE Out(Err(logic_error("expect a vector!")), 1)

display(args) ==
    IF Len(args) = 0
    THEN Out(Err(logic_error("display takes exactly one argument")), 0)
    ELSE Out(Ok(<<"Void">>), 1)

newline(args) ==
    IF Len(args) = 0 THEN Out(Ok(<<"Void">>), 0)
    ELSE Out(Err(logic_error("display takes exactly one argument")), 1)

RECURSIVE comparision_loop(_, _, _, _)

\* the for loop of comparision! without `last = current`: every operand is
\* compared with the first one
comparision_loop_keep_last(operator, last, args, i) ==
    IF i > Len(args) THEN Out(Ok(<<"Boolean", TRUE>>), Len(args))
    ELSE IF IsNumber(last) /\ IsNumber(args[i])
    THEN IF ~NumberCompare(operator, last[2], args[i][2])
         THEN Out(Ok(<<"Boolean", FALSE>>), i)
         ELSE comparision_loop(operator, last, args, i + 1)
    ELSE Out(Err(logic_error(operator \o " comparision can only between numbers!")), i)

\* the for loop of comparision!, last being the previous operand and i the next
comparision_loop(operator, last, args, i) ==
    IF i > Len(args) THEN Out(Ok(<<"Boolean", TRUE>>), Len(args))
    ELSE IF IsNumber(last) /\ IsNumber(args[i])
    THEN IF ~NumberCompare(operator, last[2], args[i][2])
         THEN Out(Ok(<<"Boolean", FALSE>>), i)
         ELSE comparision_loop(operator, Number(args[i][2]), args, i + 1)
    ELSE Out(Err(logic_error(operator \o " comparision can only between numbers!")), i)

comparision(operator, args) ==
    IF Len(args) = 0 THEN Out(Ok(<<"Boolean", TRUE>>), 0)
    ELSE comparision_loop(operator, args[1], args, 2)

equals(args) == comparision("==", args)
greater(args) == comparision(">", args)
greater_equal(args) == comparision(">=", args)
less(args) == comparision("<", args)
less_equal(args) == comparision("<=", args)

RECURSIVE first_of_order_fold(_, _, _, _)

\* the try_fold closure of first_of_order! with the two sides of the promoted
\* pair exchanged
first_of_order_fold_swapped(cmp, acc, args, i) ==
    IF i > Len(args) THEN Out(Ok(Number(acc)), Len(args))
    ELSE IF ~IsNumber(args[i])
    THEN Out(Err(logic_error("expect a number, got {}")), i)
    ELSE LET num2 == args[i][2]
             winner == IF NumberCompare(cmp, acc, num2)
                       THEN upcast_oprands(acc, num2).rhs
                       ELSE upcast_oprands(acc, num2).lhs
         IN  first_of_order_fold(cmp, winner, args, i + 1)

\* the try_fold closure of first_of_order!, from argument i on
first_of_order_fold(cmp, acc, args, i) ==
    IF i > Len(args) THEN Out(Ok(Number(acc)), Len(args))
    ELSE IF ~IsNumber(args[i])
    THEN Out(Err(logic_error("expect a number, got {}")), i)
    ELSE LET num2 == args[i][2]
             winner == IF NumberCompare(cmp, acc, num2)
                       THEN upcast_oprands(acc, num2).lhs
                       ELSE upcast_oprands(acc, num2).rhs
         IN  first_of_order_fold(cmp, winner, args, i + 1)

first_of_order(cmp, args) ==
    IF Len(args) = 0
    THEN Out(Err(logic_error("min requires at least one argument!")), 0)
    ELSE IF IsNumber(args[1]) THEN first_of_order_fold(cmp, args[1][2], args, 2)
    ELSE Out(Err(logic_error("expect a number, got {}")), 1)

max(args) == first_of_order(">", args)
min(args) == first_of_order("<", args)

\* base_library() with newline registered like display, with one parameter
base_library_newline_value ==
    [name \in {"+", "-", "*", "/", "=", "<", "<=", ">", ">=", "min", "max"}
        |-> <<(<<>>), Some("x")>>]
    @@ [name \in {"sqrt", "floor", "ceiling", "exact"} |-> <<(<<"x">>), None>>]
    @@ [name \in {"floor-quotient", "floor-remainder"} |-> <<(<<"n1", "n2">>), None>>]
    @@ [name \in {"display", "newline"} |-> <<(<<"value">>), None>>]
    @@ [name \in {"vector"} |-> <<(<<>>), None>>]
    @@ [name \in {"vector-ref"} |-> <<(<<"vector", "k">>), None>>]

\* base_library(): name -> the ParameterFormals it is registered with
base_library ==
    [name \in {"+", "-", "*", "/", "=", "<", "<=", ">", ">=", "min", "max"}
        |-> <<(<<>>), Some("x")>>]
    @@ [name \in {"sqrt", "floor", "ceiling", "exact"} |-> <<(<<"x">>), None>>]
    @@ [name \in {"floor-quotient", "floor-remainder"} |-> <<(<<"n1", "n2">>), None>>]
    @@ [name \in {"display"} |-> <<(<<"value">>), None>>]
    @@ [name \in {"newline", "vector"} |-> <<(<<>>), None>>]
    @@ [name \in {"vector-ref"} |-> <<(<<"vector", "k">>), None>>]

\* the function each name of base_library() is bound to, applied to args
apply(name, args) ==
    CASE name = "+" -> add(args)
      [] name = "-" -> sub(args)
      [] name = "*" -> mul(args)
      [] name = "/" -> div(args)
      [] name = "=" -> equals(args)
      [] name = "<" -> less(args)
      [] name = "<=" -> less_equal(args)
      [] name = ">" -> greater(args)
      [] name = ">=" -> greater_equal(args)
      [] name = "min" -> min(args)
      [] name = "max" -> max(args)
      [] name = "sqrt" -> sqrt(args)
      [] name = "floor" -> floor(args)
      [] name = "ceiling" -> ceiling(args)
      [] name = "exact" -> exact(args)
      [] name = "floor-quotient" -> floor_quotient(args)
      [] name = "floor-remainder" -> floor_remainder(args)
      [] name = "display" -> display(args)
      [] name = "newline" -> newline(args)
      [] name = "vector" -> base_vector(args)
      [] name = "vector-ref" -> vector_ref(args)

(***************************************************************************)
(* Token streams the parser is run on.  A stream is a sequence of token    *)
(* data; LexError stands for an Err item of the token iterator.            *)
(***************************************************************************)
MaxLen == 3        \* longest stream over the whole alphabet
MaxCallLen == 6    \* longest stream over the procedure-call alphabet
MaxBody == 3       \* most statements in a procedure body
MaxDatums == 2     \* most datums after a quote and in a vector literal
MaxSets == 2       \* most import sets of an import declaration
MaxTail == 4       \* most tokens after `( if`, `( quote` and `( import`

LP == <<"LeftParen">>
RP == <<"RightParen">>
Id(s) == <<"Identifier", s>>
One == <<"Integer", 1>>
LexError == <<"LexError">>

Keywords == {"lambda", "quote", "define", "set!", "import", "if"}

Alphabet ==
    {LP, RP, <<"VecConsIntro">>, <<"Quote">>, <<"Period">>, Id("x"), One, LexError,
     Id("define"), Id("if")}

CallAlphabet == {LP, RP, Id("x"), One}

SeqsUpTo(S, n) == UNION {[1..k -> S] : k \in 0..n}

RECURSIVE Concat(_)
Concat(ss) == IF ss = <<>> THEN <<>> ELSE Head(ss) \o Concat(Tail(ss))

BodyItems ==
    { <<Id("x")>>,
      <<LP, Id("define"), Id("y"), One, RP>>,
      <<LP, Id("f"), Id("x"), RP>>,
      <<LP, Id("import"), Id("lib"), RP>> }

Targets ==
    { <<Id("x")>>,
      <<One>>,
      <<LP, RP>>,
      <<LP, Id("f"), RP>>,
      <<LP, Id("f"), Id("x"), RP>>,
      <<LP, Id("f"), One, RP>>,
      <<LP, <<"Period">>, Id("r"), RP>>,
      <<LP, Id("f"), <<"Period">>, RP>>,
      <<LP, Id("f"), <<"Period">>, Id("r"), RP>>,
      <<LP, Id("f"), <<"Period">>, Id("r"), Id("x"), RP>>,
      <<LP, Id("f"), Id("x"), <<"Period">>, Id("r"), RP>>,
      <<LP, Id("f"), Id("x"), <<"Period">>, Id("r"), Id("y"), RP>>,
      <<LP, Id("f"), <<"Period">>, Id("r"), <<"Period">>, Id("s"), RP>> }

Closings == { <<RP>>, <<>>, <<RP, Id("x")>> }

\* ( kw target body... ) for the three forms that end in a procedure body
BodyShapes ==
    [kw : {"lambda", "define", "set!"}, target : Targets,
     body : SeqsUpTo(BodyItems, MaxBody), closing : Closings]

\* ( if item... closing
IfClosings == Closings \cup { <<Id("x"), RP>> }
IfShapes ==
    [kw : {"if"}, target : {<<>>},
     body : SeqsUpTo(BodyItems, MaxBody), closing : IfClosings]

\* ( quote datum... closing, ' datum... closing and #( datum... closing
DatumItems ==
    { <<Id("x")>>,
      <<One>>,
      <<LP, RP>>,
      <<(<<"Quote">>), Id("x")>>,
      <<(<<"VecConsIntro">>), Id("if"), One, RP>>,
      <<LP, Id("quote"), Id("x"), RP>>,
      <<LP, Id("define"), Id("y"), One, RP>>,
      <<LP, Id("set!"), Id("x"), One, RP>>,
      <<LP, Id("import"), Id("lib"), RP>>,
      <<LP, Id("lambda"), LP, Id("x"), RP, Id("x"), RP>> }

DatumShapes ==
    [kw : {"quote", "'", "#("}, target : {<<>>},
     body : SeqsUpTo(DatumItems, MaxDatums), closing : Closings]

\* ( import set... closing
ImportSets ==
    { <<Id("lib")>>,
      <<LP, Id("only"), Id("lib"), Id("a"), Id("b"), RP>>,
      <<LP, Id("except"), Id("lib"), RP>>,
      <<LP, Id("rename"), Id("lib"), LP, Id("a"), Id("b"), RP, RP>>,
      <<LP, Id("only"), LP, Id("except"), Id("lib"), Id("a"), RP, Id("b"), RP>>,
      <<LP, Id("rename"), LP, Id("only"), Id("lib"), Id("a"), RP,
            LP, Id("a"), Id("b"), RP, LP, Id("c"), Id("d"), RP, RP>> }

PrefixSets ==
    { <<LP, Id("prefix"), Id("lib"), Id("p"), RP>>,
      <<LP, Id("prefix"), LP, Id("only"), Id("lib"), Id("a"), RP, Id("p"), RP>> }

BrokenSets ==
    { <<One>>,
      <<LP, Id("only"), RP>>,
      <<LP, Id("rename"), Id("lib"), LP, Id("a"), RP, RP>>,
      <<LP, Id("only"), LexError, Id("a"), RP>>,
      <<LP, Id("prefix"), LexError, Id("p"), RP>> }

ImportShapes ==
    [kw : {"import"}, target : {<<>>},
     body : SeqsUpTo(ImportSets \cup PrefixSets \cup BrokenSets, MaxSets),
     closing : Closings]

Shapes == BodyShapes \cup IfShapes \cup DatumShapes \cup ImportShapes

\* the tokens a shape opens with
Opening(kw) ==
    CASE kw = "'" -> <<(<<"Quote">>)>>
      [] kw = "#(" -> <<(<<"VecConsIntro">>)>>
      [] OTHER -> <<LP, Id(kw)>>

BodyStream(s) == Opening(s.kw) \o s.target \o Concat(s.body) \o s.closing

\* the shape of a stream that is not put together from a target and a body
RawShape == [kw |-> "", target |-> <<>>, body |-> <<>>, closing |-> <<>>]

TailStreams ==
    { <<LP, Id(kw)>> \o tail :
        kw \in {"if", "quote", "import"}, tail \in SeqsUpTo(CallAlphabet, MaxTail) }

Streams ==
    SeqsUpTo(Alphabet, MaxLen) \cup SeqsUpTo(CallAlphabet, MaxCallLen)
    \cup TailStreams

\* the token vectors of the tests of parser.rs, which carry no location
TestStreams ==
    { <<>>,
      <<One>>,
      <<(<<"Real", "1.2">>)>>,
      <<(<<"Rational", 1, 2>>)>>,
      <<Id("test")>>,
      <<(<<"String", "hello world">>)>>,
      <<(<<"VecConsIntro">>), One, <<"Boolean", FALSE>>, RP>>,
      <<LP, Id("+"), One, <<"Integer", 2>>, <<"Integer", 3>>, RP>>,
      <<LP, Id("+"), One, <<"Integer", 2>>, <<"Integer", 3>>>>,
      <<LP, Id("define"), Id("a"), One, RP>>,
      <<LP, Id("define"), LP, Id("add"), Id("x"), Id("y"), RP,
        LP, Id("+"), Id("x"), Id("y"), RP, RP>>,
      <<LP, Id("define"), LP, Id("add"), <<"Period">>, Id("x"), RP, Id("x"), RP>>,
      <<LP, Id("+"), One, LP, Id("-"), <<"Integer", 2>>, <<"Integer", 3>>, RP, RP>>,
      <<LP, Id("lambda"), LP, Id("x"), Id("y"), RP,
        LP, Id("+"), Id("x"), Id("y"), RP, RP>>,
      <<LP, Id("lambda"), LP, Id("x"), RP, LP, Id("define"), Id("y"), One, RP,
        LP, Id("+"), Id("x"), Id("y"), RP, RP>>,
      <<LP, Id("lambda"), LP, Id("x"), RP, LP, Id("define"), Id("y"), One, RP, RP>>,
      <<LP, Id("lambda"), LP, Id("x"), <<"Period">>, Id("y"), RP,
        LP, Id("+"), Id("x"), Id("y"), RP, RP>>,
      <<LP, Id("if"), <<"Boolean", TRUE>>, One, <<"Integer", 2>>, RP>>,
      <<LP, Id("import"),
        LP, Id("only"), Id("example-lib"), Id("a"), Id("b"), RP,
        LP, Id("rename"), Id("example-lib"), LP, Id("old"), Id("new"), RP, RP, RP>>,
      <<(<<"Quote">>), One, <<"Quote">>, Id("a"), <<"Quote">>, LP, One, RP,
        <<"VecConsIntro">>, One, RP, <<"Quote">>, <<"VecConsIntro">>, One, RP>> }

Unlocated == TestStreams \cup SeqsUpTo(CallAlphabet, MaxLen)

lexer_error == [category |-> "Lexical", message |-> "lexer error", location |-> None]

\* the items the token iterator yields for a stream; a located token carries
\* [line, column] = [1, its position], an unlocated one carries None
Items(stream, located) ==
    [i \in 1..Len(stream) |->
        IF stream[i] = LexError THEN Err(lexer_error)
        ELSE Ok(Token(stream[i], IF located THEN Some(<<1, i>>) ELSE None))]

(***************************************************************************)
(* Values the built-ins are called with.                                   *)
(***************************************************************************)
MaxArgs == 3       \* most arguments in a call

Numbers ==
    { <<"Integer", -1>>, <<"Integer", 0>>, <<"Integer", 1>>, <<"Integer", 2>>,
      <<"Rational", 1, 2>>, <<"Real", 1, 2>>, <<"Real", 2, 1>> }

Values ==
    {Number(n) : n \in Numbers}
    \cup { <<"String", "foo">>,
           <<"Vector", <<>>>>,
           <<"Vector", <<Number(<<"Integer", 5>>), <<"String", "foo">>>>>> }

(***************************************************************************)
(* The state machine: Parser::from_lexer then parse() calls on one parser; *)
(* base_library() then a call of one of its procedures.                    *)
(***************************************************************************)
NotCalled == <<"NotCalled">>

ParserIdle ==
    /\ current = None /\ lexer = <<>> /\ location = None
    /\ shape = RawShape /\ input = <<>> /\ entry = None /\ result = NotCalled /\ calls = 0

BaseIdle == fname = "" /\ arguments = <<>> /\ ret = Out(NotCalled, 0)

\* Parser::from_lexer(lexer)
from_lexer ==
    /\ \/ \E stream \in Streams : shape = RawShape /\ input = Items(stream, TRUE)
       \/ \E stream \in Unlocated : shape = RawShape /\ input = Items(stream, FALSE)
       \/ \E s \in Shapes : shape = s /\ input = Items(BodyStream(s), TRUE)
    /\ lexer = input
    /\ current = None
    /\ location = None
    /\ entry = None
    /\ result = NotCalled
    /\ calls = 0

\* the last call returned None and left the parser as it found it: every further
\* call repeats it
Exhausted ==
    /\ result = Ok(None)
    /\ entry = Some([current |-> current, lexer |-> lexer, location |-> location])

\* one call of parser.parse()
Parse ==
    /\ calls <= Len(input) + 1
    /\ ~Exhausted
    /\ LET p == [current |-> current, lexer |-> lexer, location |-> location]
           x == self_call("parse", p, None)
       IN  /\ current' = x.p.current
           /\ lexer' = x.p.lexer
           /\ location' = x.p.location
           /\ entry' = Some(p)
           /\ result' = x.r
    /\ calls' = calls + 1
    /\ UNCHANGED <<shape, input, fname, arguments, ret>>

\* one call of the procedure registered under name
Call(name) ==
    /\ fname = ""
    /\ fname' = name
    /\ ret' = apply(name, arguments)
    /\ UNCHANGED <<arguments, shape, input, current, lexer, location, entry, result, calls>>

InitParser == from_lexer /\ BaseIdle
NextParser == Parse
SpecParser == InitParser /\ [][NextParser]_vars

\* base_library(), and the argument values of the call to come
InitBase ==
    /\ ParserIdle
    /\ fname = ""
    /\ ret = Out(NotCalled, 0)
    /\ arguments \in SeqsUpTo(Values, MaxArgs)
NextBase == \E name \in DOMAIN base_library : Call(name)
SpecBase == InitBase /\ [][NextBase]_vars

(***************************************************************************)
(* Properties.                                                             *)
(***************************************************************************)
Called == calls > 0
NoLexError(items) == \A i \in DOMAIN items : items[i][1] = "Ok"
IsSyntaxError(r) == r[1] = "Err" /\ r[2].category = "Syntax"
IsLogicError(r) == r[1] = "Err" /\ r[2].category = "Logic"
ReturnedStatement == result[1] = "Ok" /\ result[2] # None
ReturnedExpression == ReturnedStatement /\ result[2][1][1] = "Expression"
ReturnedDefinition == ReturnedStatement /\ result[2][1][1] = "Definition"

\* the token data of items
DataSeq(items) == [i \in DOMAIN items |-> items[i][2].data]

\* the token data the last parse() call consumed
Consumed == DataSeq(SubSeq(entry[1].lexer, 1, Len(entry[1].lexer) - Len(lexer)))

\* C1: on a stream without lexer errors every parse() call returns a Statement,
\* None or a Syntax error, and None only from a call that found the stream
\* exhausted and so consumed nothing.
C1_ParseReturns ==
    (Called /\ NoLexError(input)) =>
        /\ result[1] \in {"Ok", "Err"}
        /\ result[1] = "Err" => result[2].category = "Syntax"
        /\ ReturnedStatement =>
               result[2][1][1] \in {"ImportDeclaration", "Definition", "Expression"}
        /\ (result[1] = "Ok" /\ result[2] = None) =>
               (entry[1].lexer = <<>> /\ lexer = <<>>)

\* C1 witness: after a statement was returned, the next call returns None
C1_Witness ==
    /\ calls = 2 /\ NoLexError(input) /\ Len(input) > 1
    /\ result[1] = "Ok" /\ result[2] = None

\* position of a located node in the stream, 0 when it carries no location
Pos(loc) == IF loc = None THEN 0 ELSE loc[1][2]
Before(l1, l2) == (l1 # None /\ l2 # None) => Pos(l1) < Pos(l2)

\* every Procedure node in expression e has an expression in its body and takes
\* each of its definitions from tokens before those of each of its expressions
RECURSIVE ProceduresOrdered(_)
ProceduresOrdered(e) ==
    LET d == e.data
    IN  CASE d[1] = "Procedure" ->
               LET defs == d[2][2]
                   exprs == d[2][3]
               IN  /\ exprs # <<>>
                   /\ \A i \in DOMAIN defs, j \in DOMAIN exprs :
                          Before(defs[i].data[2].location, exprs[j].location)
                   /\ \A i \in DOMAIN defs : ProceduresOrdered(defs[i].data[2])
                   /\ \A j \in DOMAIN exprs : ProceduresOrdered(exprs[j])
          [] d[1] = "ProcedureCall" ->
               /\ ProceduresOrdered(d[2])
               /\ \A i \in DOMAIN d[3] : ProceduresOrdered(d[3][i])
          [] d[1] = "Assignment" -> ProceduresOrdered(d[3])
          [] d[1] = "Conditional" ->
               /\ ProceduresOrdered(d[2][1])
               /\ ProceduresOrdered(d[2][2])
               /\ d[2][3] # None => ProceduresOrdered(d[2][3][1])
          [] d[1] = "Quote" -> ProceduresOrdered(d[2])
          [] d[1] \in {"List", "Vector"} ->
               \A i \in DOMAIN d[2] : ProceduresOrdered(d[2][i])
          [] OTHER -> TRUE

\* the body items that are definitions and those that are expressions
ItemIsDefinition(item) == item = <<LP, Id("define"), Id("y"), One, RP>>
ItemIsExpression(item) == item \in { <<Id("x")>>, <<LP, Id("f"), Id("x"), RP>> }

\* a body the grammar accepts: definitions, then at least one expression
BodyAccepted(body) ==
    /\ \E i \in DOMAIN body : ItemIsExpression(body[i])
    /\ \A i \in DOMAIN body : ItemIsDefinition(body[i]) \/ ItemIsExpression(body[i])
    /\ \A i, j \in DOMAIN body :
           (ItemIsExpression(body[i]) /\ ItemIsDefinition(body[j])) => j < i

\* the target with a second Period, of which definition() takes the Period as
\* the end of the formals and the name after it as the first body statement
TwoPeriods == <<LP, Id("f"), <<"Period">>, Id("r"), <<"Period">>, Id("s"), RP>>

\* the shapes whose body is a procedure body
HasProcedureBody(s) ==
    \/ s.kw = "lambda"
    \/ s.kw \in {"define", "set!"} /\ Head(s.target) = LP /\ s.target # TwoPeriods

\* C2: every Procedure node returned has a non-empty expressions list and its
\* definitions come before its expressions in the source; a procedure body that
\* is empty, has no expression or has a definition after an expression is
\* rejected with a Syntax error.
C2_ProcedureBody ==
    Called =>
        /\ ReturnedExpression => ProceduresOrdered(result[2][1][2])
        /\ ReturnedDefinition => ProceduresOrdered(result[2][1][2].data[2])
        /\ (calls = 1 /\ HasProcedureBody(shape) /\ ~BodyAccepted(shape.body)) =>
               IsSyntaxError(result)

\* C2 witness: a Procedure with two definitions and an expression was returned
C2_Witness ==
    /\ calls = 1 /\ shape.kw = "lambda" /\ ReturnedExpression
    /\ result[2][1][2].data[1] = "Procedure"
    /\ Len(result[2][1][2].data[2][2]) = 2
    /\ Len(result[2][1][2].data[2][3]) >= 1
    /\ result[2][1][2].data[2][2][2].data[2].location # None
    /\ result[2][1][2].data[2][3][1].location # None

\* the tokens a literal, call, quotation or vector is written with
RECURSIVE Unparse(_)
RECURSIVE UnparseAll(_)
Unparse(e) ==
    LET d == e.data
    IN  CASE d[1] = "ProcedureCall" ->
               <<LP>> \o Unparse(d[2]) \o UnparseAll(d[3]) \o <<RP>>
          [] d[1] = "List" -> <<LP>> \o UnparseAll(d[2]) \o <<RP>>
          [] d[1] = "Vector" -> <<(<<"VecConsIntro">>)>> \o UnparseAll(d[2]) \o <<RP>>
          [] d[1] = "Quote" -> <<(<<"Quote">>)>> \o Unparse(d[2])
          [] OTHER -> <<d>>
UnparseAll(es) == IF es = <<>> THEN <<>> ELSE Unparse(Head(es)) \o UnparseAll(Tail(es))

IsKeyword(data) == data[1] = "Identifier" /\ data[2] \in Keywords

\* the length of the shortest prefix of ts from position i on that closes depth
\* open parentheses, 0 when there is none
RECURSIVE CloseAt(_, _, _)
CloseAt(ts, i, depth) ==
    IF i > Len(ts) THEN 0
    ELSE IF ts[i] = LP THEN CloseAt(ts, i + 1, depth + 1)
    ELSE IF ts[i] = RP
    THEN IF depth = 1 THEN i ELSE CloseAt(ts, i + 1, depth - 1)
    ELSE CloseAt(ts, i + 1, depth)

\* ts, a stream over the call alphabet, starts with a complete call: its first
\* parenthesis is closed and no parenthesis up to there is closed at once
CompleteCall(ts) ==
    LET n == CloseAt(ts, 1, 0)
    IN  /\ n > 0
        /\ \A i \in 1..(n - 1) : ts[i] = LP => ts[i + 1] # RP

\* C3: after ( a token that is neither ) nor a keyword starts a procedure call:
\* the statement returned is ProcedureCall(operator, args) written exactly by the
\* tokens consumed, operator first, args in source order up to the matching );
\* ( followed by ) fails with "empty procedure call" at the ).
C3_ProcedureCall ==
    LET ts == DataSeq(entry[1].lexer)
    IN  (/\ Called
         /\ NoLexError(entry[1].lexer)
         /\ Len(ts) >= 2
         /\ ts[1] = LP
         /\ \A i \in DOMAIN ts : ~IsKeyword(ts[i])) =>
            /\ ts[2] = RP =>
                   result = Err(syntax_error(entry[1].lexer[2][2].location,
                                             "empty procedure call"))
            /\ (ts[2] # RP /\ result[1] = "Ok") =>
                   /\ ReturnedExpression
                   /\ result[2][1][2].data[1] = "ProcedureCall"
                   /\ Unparse(result[2][1][2]) = Consumed
            /\ (ts[2] # RP /\ \A i \in DOMAIN ts : ts[i] \in CallAlphabet) =>
                   (result[1] = "Ok" <=> CompleteCall(ts))

\* C3 witness: a call with two arguments, the second a nested call
C3_Witness ==
    /\ calls = 1 /\ ReturnedExpression
    /\ result[2][1][2].data[1] = "ProcedureCall"
    /\ Len(result[2][1][2].data[3]) = 2
    /\ result[2][1][2].data[3][1].data[1] = "Integer"
    /\ result[2][1][2].data[3][2].data[1] = "ProcedureCall"

CalledAs(names) == fname \in names
AllNumbers(args) == \A i \in DOMAIN args : IsNumber(args[i])

\* the index of the first argument that is no number, 0 when all are numbers
FirstNonNumber(args) ==
    IF AllNumbers(args) THEN 0
    ELSE CHOOSE i \in DOMAIN args :
             ~IsNumber(args[i]) /\ \A j \in 1..(i - 1) : IsNumber(args[j])

\* the sign of a - b for two Numbers, by cross multiplication
Cross(a, b) == Num(a) * Den(b) - Num(b) * Den(a)

\* the built-ins registered with a fixed parameter list and no variadic one
FixedArity == { name \in DOMAIN base_library : base_library[name][2] = None }

\* C4 as stated: a fixed-arity built-in called with fewer or more arguments
\* than it is registered with fails with a Logic error.
C4_FixedArityRejects ==
    (CalledAs(FixedArity) /\ Len(arguments) # Len(base_library[fname][1])) =>
        IsLogicError(ret.r)

\* C5: on a non-empty sequence of numbers min returns one of its arguments, not
\* greater than any of them, and max one of them not less than any of them; with
\* no argument or with an argument that is no number both fail with Logic.
C5_MinMax ==
    CalledAs({"min", "max"}) =>
        IF arguments = <<>> \/ ~AllNumbers(arguments)
        THEN IsLogicError(ret.r)
        ELSE /\ ret.r[1] = "Ok"
             /\ \E i \in DOMAIN arguments : arguments[i] = ret.r[2]
             /\ \A i \in DOMAIN arguments :
                    IF fname = "min"
                    THEN Cross(ret.r[2][2], arguments[i][2]) <= 0
                    ELSE Cross(ret.r[2][2], arguments[i][2]) >= 0

\* C5 witness: min of three numbers of mixed exactness, the least of them last
C5_Witness ==
    /\ fname = "min" /\ Len(arguments) = 3 /\ AllNumbers(arguments)
    /\ ret.r = Ok(arguments[3])
    /\ arguments[1][2][1] = "Real" /\ arguments[2][2][1] = "Rational"
    /\ Cross(arguments[3][2], arguments[2][2]) < 0
    /\ Cross(arguments[2][2], arguments[1][2]) < 0

\* C6: vector-ref(v, i) returns the element at i exactly when 0 <= i < Len(v) and
\* fails with "vector index out of bound" for every other Integer i, negative
\* ones included; the other shapes fail with the message the claim names.
C6_VectorRef ==
    CalledAs({"vector-ref"}) =>
        LET message(m) == ret.r = Err(logic_error(m))
        IN  IF arguments = <<>>
            THEN message("vector_ref requires exactly two argument")
            ELSE IF arguments[1][1] # "Vector"
            THEN message("expect a vector!")
            ELSE IF Len(arguments) = 1
            THEN message("vector_ref requires exactly two argument")
            ELSE IF ~(IsNumber(arguments[2]) /\ arguments[2][2][1] = "Integer")
            THEN message("expect a integer!")
            ELSE LET v == arguments[1][2]
                     i == arguments[2][2][2]
                 IN  IF 0 <= i /\ i < Len(v)
                     THEN ret.r = Ok(v[i + 1])
                     ELSE message("vector index out of bound")

\* C6 witness: a negative index into a vector of two elements
C6_Witness ==
    /\ fname = "vector-ref" /\ Len(arguments) = 2
    /\ arguments[1][1] = "Vector" /\ Len(arguments[1][2]) = 2
    /\ arguments[2] = Number(<<"Integer", -1>>)
    /\ IsLogicError(ret.r)

\* the relation each comparison built-in is registered for
Related(name, a, b) ==
    CASE name = "="  -> Cross(a, b) = 0
      [] name = "<"  -> Cross(a, b) < 0
      [] name = "<=" -> Cross(a, b) <= 0
      [] name = ">"  -> Cross(a, b) > 0
      [] name = ">=" -> Cross(a, b) >= 0

Comparisons == {"=", "<", "<=", ">", ">="}

\* the adjacent pair (k, k + 1) is the first one of args that violates name
FirstViolation(name, args, k) ==
    /\ k + 1 \in DOMAIN args
    /\ \A j \in 1..(k + 1) : IsNumber(args[j])
    /\ \A j \in 1..(k - 1) : Related(name, args[j][2], args[j + 1][2])
    /\ ~Related(name, args[k][2], args[k + 1][2])

\* C7: a comparison built-in on numbers returns true exactly when every adjacent
\* pair satisfies its relation (so always with no or one argument), and returns
\* false at the first violating pair having pulled no argument after that pair,
\* whatever the later arguments are.
C7_ComparisonChain ==
    CalledAs(Comparisons) =>
        /\ AllNumbers(arguments) =>
               ret.r = Ok(<<"Boolean",
                            \A k \in 1..(Len(arguments) - 1) :
                                Related(fname, arguments[k][2], arguments[k + 1][2])>>)
        /\ \A k \in DOMAIN arguments :
               FirstViolation(fname, arguments, k) =>
                   ret = Out(Ok(<<"Boolean", FALSE>>), k + 1)

\* C7 witness: false returned at the first pair with a later argument, which is
\* no number, left unexamined
C7_Witness ==
    /\ fname = "<" /\ Len(arguments) = 3
    /\ FirstViolation("<", arguments, 1)
    /\ ~IsNumber(arguments[3])
    /\ ret.r = Ok(<<"Boolean", FALSE>>)

\* fractions <<n, d>> and the four operations on them
Frac(v) == <<Num(v[2]), Den(v[2])>>
FracOp(op, a, b) ==
    CASE op = "+" -> <<a[1] * b[2] + b[1] * a[2], a[2] * b[2]>>
      [] op = "-" -> <<a[1] * b[2] - b[1] * a[2], a[2] * b[2]>>
      [] op = "*" -> <<a[1] * b[1], a[2] * b[2]>>
      [] op = "/" -> <<a[1] * b[2], a[2] * b[1]>>

\* ((acc op xs[i]) op ...) op xs[Len(xs)]
RECURSIVE LeftFold(_, _, _, _)
LeftFold(op, acc, xs, i) ==
    IF i > Len(xs) THEN acc ELSE LeftFold(op, FracOp(op, acc, Frac(xs[i])), xs, i + 1)

\* the value the claim gives name on the numbers xs
FoldValue(name, xs) ==
    CASE name = "+" -> LeftFold("+", <<0, 1>>, xs, 1)
      [] name = "*" -> LeftFold("*", <<1, 1>>, xs, 1)
      [] name = "-" -> IF Len(xs) = 1 THEN FracOp("-", <<0, 1>>, Frac(xs[1]))
                       ELSE LeftFold("-", Frac(xs[1]), xs, 2)
      [] name = "/" -> IF Len(xs) = 1 THEN FracOp("/", <<1, 1>>, Frac(xs[1]))
                       ELSE LeftFold("/", Frac(xs[1]), xs, 2)

\* argument i stops the fold of name: it is no number, or it is a zero divisor
Stops(name, args, i) ==
    \/ ~IsNumber(args[i])
    \/ /\ name = "/"
       /\ Num(args[i][2]) = 0
       /\ i > 1 \/ Len(args) = 1

\* the first argument that stops the fold, 0 when none does
FirstStop(name, args) ==
    IF \A i \in DOMAIN args : ~Stops(name, args, i) THEN 0
    ELSE CHOOSE i \in DOMAIN args :
             Stops(name, args, i) /\ \A j \in 1..(i - 1) : ~Stops(name, args, j)

Arithmetic == {"+", "-", "*", "/"}

\* C8: +, *, - and / return the left fold the claim gives them, exact when all
\* arguments are; - and / fail with Logic on no argument; the first argument
\* that is no number, or that a division step fails on, makes the call fail
\* with Logic having pulled no later argument.
C8_ArithmeticFolds ==
    CalledAs(Arithmetic) =>
        LET stop == FirstStop(fname, arguments)
        IN  IF arguments = <<>> /\ fname \in {"-", "/"}
            THEN IsLogicError(ret.r) /\ ret.used = 0
            ELSE IF stop # 0
            THEN IsLogicError(ret.r) /\ ret.used = stop
            ELSE LET f == FoldValue(fname, arguments)
                 IN  /\ ret.r[1] = "Ok" /\ IsNumber(ret.r[2])
                     /\ Num(ret.r[2][2]) * f[2] = f[1] * Den(ret.r[2][2])
                     /\ IsExact(ret.r[2][2]) <=>
                            \A i \in DOMAIN arguments : IsExact(arguments[i][2])

\* C8 witness: a division of three numbers whose result is the fraction 1/4
C8_Witness ==
    /\ fname = "/" /\ Len(arguments) = 3 /\ AllNumbers(arguments)
    /\ ret.r = Ok(Number(<<"Rational", 1, 4>>))

\* an expression without its locations
RECURSIVE StripE(_)
StripE(e) ==
    LET d == e.data
    IN  CASE d[1] = "Procedure" ->
               <<"Procedure",
                 <<d[2][1],
                   [i \in DOMAIN d[2][2] |->
                       <<d[2][2][i].data[1], StripE(d[2][2][i].data[2])>>],
                   [j \in DOMAIN d[2][3] |-> StripE(d[2][3][j])]>>>>
          [] d[1] = "ProcedureCall" ->
               <<"ProcedureCall", StripE(d[2]), [i \in DOMAIN d[3] |-> StripE(d[3][i])]>>
          [] d[1] = "Assignment" -> <<"Assignment", d[2], StripE(d[3])>>
          [] d[1] = "Conditional" ->
               <<"Conditional",
                 <<StripE(d[2][1]), StripE(d[2][2]),
                   IF d[2][3] = None THEN None ELSE Some(StripE(d[2][3][1]))>>>>
          [] d[1] = "Quote" -> <<"Quote", StripE(d[2])>>
          [] d[1] \in {"List", "Vector"} ->
               <<d[1], [i \in DOMAIN d[2] |-> StripE(d[2][i])]>>
          [] OTHER -> d

\* what a body item is to parse to
ItemExpression(item) ==
    IF item = <<Id("x")>> THEN Id("x")
    ELSE <<"ProcedureCall", Id("f"), <<Id("x")>>>>
ItemDefinition(item) == <<"y", One>>

\* the Procedure a body the grammar accepts is to parse to under formals
BodyProcedure(formals, body) ==
    LET defs == SelectSeq(body, ItemIsDefinition)
        exprs == SelectSeq(body, ItemIsExpression)
    IN  <<"Procedure",
          <<formals,
            [i \in DOMAIN defs |-> ItemDefinition(defs[i])],
            [j \in DOMAIN exprs |-> ItemExpression(exprs[j])]>>>>

\* the result is Definition(name, value), locations apart
ParsedDefinition(name, value) ==
    /\ ReturnedDefinition
    /\ result[2][1][2].data[1] = name
    /\ StripE(result[2][1][2].data[2]) = value

\* a first parse() of a stream `( define target body... closing`
DefineParsed == calls = 1 /\ shape.kw = "define"

\* C9: (define identifier expression) parses to Definition(identifier,
\* expression), (define (name p1 ... pk) body...) to Definition(name,
\* Procedure(([p1..pk], None), body)) and (define (name . rest) body...) to
\* Definition(name, Procedure(([], Some rest), body)); a definition in the value
\* position, or anything but RightParen after the value expression, is a Syntax
\* error.
C9_Define ==
    DefineParsed =>
        LET body == shape.body
            closed == shape.closing # <<>>
        IN  /\ (shape.target = <<Id("x")>> /\ body # <<>>) =>
                   IF ItemIsExpression(body[1])
                   THEN IF Len(body) = 1 /\ closed
                        THEN ParsedDefinition("x", ItemExpression(body[1]))
                        ELSE IsSyntaxError(result)
                   ELSE ItemIsDefinition(body[1]) => IsSyntaxError(result)
            /\ (shape.target = <<LP, Id("f"), RP>> /\ BodyAccepted(body) /\ closed) =>
                   ParsedDefinition("f", BodyProcedure(<<(<<>>), None>>, body))
            /\ (shape.target = <<LP, Id("f"), Id("x"), RP>>
                    /\ BodyAccepted(body) /\ closed) =>
                   ParsedDefinition("f", BodyProcedure(<<(<<"x">>), None>>, body))
            /\ (shape.target = <<LP, Id("f"), <<"Period">>, Id("r"), RP>>
                    /\ BodyAccepted(body) /\ closed) =>
                   ParsedDefinition("f", BodyProcedure(<<(<<>>), Some("r")>>, body))

\* C9 witness: the dotted shorthand with a definition and two expressions
C9_Witness ==
    /\ DefineParsed
    /\ shape.target = <<LP, Id("f"), <<"Period">>, Id("r"), RP>>
    /\ Len(shape.body) = 3
    /\ ParsedDefinition("f", BodyProcedure(<<(<<>>), Some("r")>>, shape.body))
    /\ Len(result[2][1][2].data[2].data[2][2]) = 1

\* the first parse() of the stream of shape s
FirstParse(s) ==
    self_call("parse",
              [current |-> None, lexer |-> Items(BodyStream(s), TRUE), location |-> None],
              None).r

\* C10 as stated: whenever ( define X... ) parses to Definition(name, value), the
\* same tokens with set! for define parse to Assignment(name, value).
C10_SetAcceptsDefineShapes ==
    (DefineParsed /\ ReturnedDefinition) =>
        LET r == FirstParse([shape EXCEPT !.kw = "set!"])
        IN  /\ r[1] = "Ok"
            /\ r[2] # None
            /\ r[2][1][1] = "Expression"
            /\ r[2][1][2].data[1] = "Assignment"
            /\ r[2][1][2].data[2] = result[2][1][2].data[1]
            /\ StripE(r[2][1][2].data[3]) = StripE(result[2][1][2].data[2])

\* a first parse() of a stream `( lambda formals body... closing`
LambdaParsed == calls = 1 /\ shape.kw = "lambda"

\* the result is a Procedure with these formals and the body of the shape
ParsedLambda(formals) ==
    /\ ReturnedExpression
    /\ StripE(result[2][1][2]) = BodyProcedure(formals, shape.body)

Dot == <<"Period">>

\* C11: after ( lambda, an identifier x gives formals ([], Some x), a list
\* (p1 ... pk) gives ([p1..pk], None) in source order and (p1 ... pk . r) with
\* k >= 1 gives ([p1..pk], Some r); a Period that no fixed name precedes and a
\* token in the list that is no identifier are Syntax errors.
C11_LambdaFormals ==
    LambdaParsed =>
        LET accepted == BodyAccepted(shape.body) /\ shape.closing # <<>>
            t == shape.target
        IN  /\ (accepted /\ t = <<Id("x")>>) => ParsedLambda(<<(<<>>), Some("x")>>)
            /\ (accepted /\ t = <<LP, RP>>) => ParsedLambda(<<(<<>>), None>>)
            /\ (accepted /\ t = <<LP, Id("f"), RP>>) => ParsedLambda(<<(<<"f">>), None>>)
            /\ (accepted /\ t = <<LP, Id("f"), Id("x"), RP>>) =>
                   ParsedLambda(<<(<<"f", "x">>), None>>)
            /\ (accepted /\ t = <<LP, Id("f"), Dot, Id("r"), RP>>) =>
                   ParsedLambda(<<(<<"f">>), Some("r")>>)
            /\ (accepted /\ t = <<LP, Id("f"), Id("x"), Dot, Id("r"), RP>>) =>
                   ParsedLambda(<<(<<"f", "x">>), Some("r")>>)
            /\ t = <<LP, Dot, Id("r"), RP>> => IsSyntaxError(result)
            /\ t = <<LP, Id("f"), One, RP>> => IsSyntaxError(result)

\* C11 witness: two fixed parameters and a variadic one
C11_Witness ==
    /\ LambdaParsed
    /\ shape.target = <<LP, Id("f"), Id("x"), Dot, Id("r"), RP>>
    /\ ParsedLambda(<<(<<"f", "x">>), Some("r")>>)

\* the formals lists that go on after the variadic name
GoOnAfterVariadic ==
    { <<LP, Id("f"), Dot, Id("r"), Id("x"), RP>>,
      <<LP, Id("f"), Id("x"), Dot, Id("r"), Id("y"), RP>>,
      <<LP, Id("f"), Dot, Id("r"), Dot, Id("s"), RP>> }

\* C12 as stated: a formals list with a token other than RightParen after the
\* variadic name is rejected with a Syntax error.
C12_FormalsEndAfterVariadic ==
    (LambdaParsed /\ shape.target \in GoOnAfterVariadic) => IsSyntaxError(result)

\* a first parse() of a stream `( if item... closing`
IfParsed == calls = 1 /\ shape.kw = "if"

\* the shape ends with the RightParen of the form
Closed == shape.closing # <<>> /\ Head(shape.closing) = RP

\* the first k items of the body are expressions
FirstAreExpressions(k) ==
    Len(shape.body) >= k /\ \A i \in 1..k : ItemIsExpression(shape.body[i])

\* the call read the whole form and left the tokens after its RightParen unread
FormConsumed ==
    lexer = SubSeq(input, Len(input) - Len(shape.closing) + 2, Len(input))

\* C13: (if test consequent) parses to Conditional(test, consequent, None) and
\* (if test consequent alternative) to Conditional(test, consequent,
\* Some(alternative)), the whole form with its RightParen being consumed; a
\* test, consequent or alternative that is no expression is a Syntax error.
C13_Conditional ==
    IfParsed =>
        LET b == shape.body
        IN  /\ (Len(b) = 2 /\ FirstAreExpressions(2) /\ Closed) =>
                   /\ ReturnedExpression
                   /\ StripE(result[2][1][2]) =
                          <<"Conditional",
                            <<ItemExpression(b[1]), ItemExpression(b[2]), None>>>>
                   /\ FormConsumed
            /\ (Len(b) = 3 /\ FirstAreExpressions(3) /\ Closed) =>
                   /\ ReturnedExpression
                   /\ StripE(result[2][1][2]) =
                          <<"Conditional",
                            <<ItemExpression(b[1]), ItemExpression(b[2]),
                              Some(ItemExpression(b[3]))>>>>
                   /\ FormConsumed
            /\ \A k \in (1..Len(b)) \cap (1..3) :
                   (FirstAreExpressions(k - 1) /\ ~ItemIsExpression(b[k])) =>
                       IsSyntaxError(result)

\* C13 witness: a form with an alternative and a token after it
C13_Witness ==
    /\ IfParsed /\ Len(shape.body) = 3 /\ FirstAreExpressions(3)
    /\ shape.closing = <<RP, Id("x")>>
    /\ ReturnedExpression
    /\ result[2][1][2].data[1] = "Conditional"
    /\ Len(lexer) = 1

\* C14 as stated: in an if form with an alternative, anything but RightParen
\* after the alternative, the end of the input included, is a Syntax error.
C14_AlternativeThenParen ==
    (IfParsed /\ Len(shape.body) = 3 /\ FirstAreExpressions(3) /\ ~Closed) =>
        IsSyntaxError(result)

\* the datum written by the tokens of ts from position i on and the position
\* after it: a parenthesised group is a List, a #( group a Vector, ' datum a
\* Quote, any other token itself
RECURSIVE DatumAt(_, _)
RECURSIVE DatumsFrom(_, _)
DatumAt(ts, i) ==
    CASE ts[i] = LP ->
           LET es == DatumsFrom(ts, i + 1)
           IN  [ast |-> <<"List", es.ast>>, next |-> es.next]
      [] ts[i] = <<"VecConsIntro">> ->
           LET es == DatumsFrom(ts, i + 1)
           IN  [ast |-> <<"Vector", es.ast>>, next |-> es.next]
      [] ts[i] = <<"Quote">> ->
           LET d == DatumAt(ts, i + 1)
           IN  [ast |-> <<"Quote", d.ast>>, next |-> d.next]
      [] OTHER -> [ast |-> ts[i], next |-> i + 1]
DatumsFrom(ts, i) ==
    IF ts[i] = RP THEN [ast |-> <<>>, next |-> i + 1]
    ELSE LET d == DatumAt(ts, i)
             es == DatumsFrom(ts, d.next)
         IN  [ast |-> <<d.ast>> \o es.ast, next |-> es.next]

DatumOf(item) == DatumAt(item, 1).ast

\* a first parse() of a stream that opens with kw
ShapeParsed(kw) == calls = 1 /\ shape.kw = kw

\* C15: ' d and ( quote d ) both parse to Expression(Quote(d)) with equal data;
\* ( quote d followed by anything but RightParen, the end of the input
\* included, is a Syntax error, and so is ' with no datum after it.
C15_QuoteForms ==
    /\ (ShapeParsed("quote") /\ Len(shape.body) = 1 /\ Closed) =>
           LET prefix == FirstParse([shape EXCEPT !.kw = "'"])
           IN  /\ ReturnedExpression
               /\ StripE(result[2][1][2]) = <<"Quote", DatumOf(shape.body[1])>>
               /\ prefix[1] = "Ok" /\ prefix[2] # None
               /\ prefix[2][1][1] = "Expression"
               /\ StripE(prefix[2][1][2]) = StripE(result[2][1][2])
    /\ (ShapeParsed("'") /\ Len(shape.body) >= 1) =>
           /\ ReturnedExpression
           /\ StripE(result[2][1][2]) = <<"Quote", DatumOf(shape.body[1])>>
    /\ (ShapeParsed("quote") /\ Len(shape.body) >= 1
            /\ ~(Len(shape.body) = 1 /\ Closed)) => IsSyntaxError(result)
    /\ (ShapeParsed("'") /\ shape.body = <<>> /\ shape.closing = <<>>) =>
           IsSyntaxError(result)

\* C15 witness: ( quote d ) with d a list that opens with a keyword
C15_Witness ==
    /\ ShapeParsed("quote") /\ Closed
    /\ shape.body = << <<LP, Id("define"), Id("y"), One, RP>> >>
    /\ ReturnedExpression
    /\ result[2][1][2].data[1] = "Quote"
    /\ result[2][1][2].data[2].data[1] = "List"

\* e is a datum: a List, a Vector or a Quote of datums, or a literal
RECURSIVE IsDatum(_)
IsDatum(e) ==
    LET d == e.data
    IN  CASE d[1] \in {"List", "Vector"} -> \A i \in DOMAIN d[2] : IsDatum(d[2][i])
          [] d[1] = "Quote" -> IsDatum(d[2])
          [] OTHER -> d[1] \in LiteralKinds

\* every quotation and every vector literal in e holds datums only
RECURSIVE DatumsInside(_)
DatumsInside(e) ==
    LET d == e.data
    IN  CASE d[1] = "Quote" -> IsDatum(d[2])
          [] d[1] = "Vector" -> \A i \in DOMAIN d[2] : IsDatum(d[2][i])
          [] d[1] = "List" -> \A i \in DOMAIN d[2] : IsDatum(d[2][i])
          [] d[1] = "Procedure" ->
               /\ \A i \in DOMAIN d[2][2] : DatumsInside(d[2][2][i].data[2])
               /\ \A j \in DOMAIN d[2][3] : DatumsInside(d[2][3][j])
          [] d[1] = "ProcedureCall" ->
               /\ DatumsInside(d[2])
               /\ \A i \in DOMAIN d[3] : DatumsInside(d[3][i])
          [] d[1] = "Assignment" -> DatumsInside(d[3])
          [] d[1] = "Conditional" ->
               /\ DatumsInside(d[2][1])
               /\ DatumsInside(d[2][2])
               /\ d[2][3] # None => DatumsInside(d[2][3][1])
          [] OTHER -> TRUE

\* C16: inside a quotation or a vector literal, at every depth, a parenthesised
\* group is a List and a #( group a Vector of the element datums in source
\* order, and no other compound node is produced there, even after a keyword.
C16_DatumsOnly ==
    Called =>
        /\ ReturnedExpression => DatumsInside(result[2][1][2])
        /\ ReturnedDefinition => DatumsInside(result[2][1][2].data[2])
        /\ (ShapeParsed("#(") /\ Closed) =>
               /\ ReturnedExpression
               /\ StripE(result[2][1][2]) =
                      <<"Vector", [i \in DOMAIN shape.body |-> DatumOf(shape.body[i])]>>
        /\ (ShapeParsed("'") /\ Len(shape.body) >= 1) =>
               /\ ReturnedExpression
               /\ StripE(result[2][1][2].data[2]) = DatumOf(shape.body[1])

\* C16 witness: a vector literal holding a list that opens with lambda and holds
\* a list itself
C16_Witness ==
    /\ ShapeParsed("#(") /\ Closed /\ Len(shape.body) = 2
    /\ shape.body[2] = <<LP, Id("lambda"), LP, Id("x"), RP, Id("x"), RP>>
    /\ ReturnedExpression
    /\ result[2][1][2].data[1] = "Vector"
    /\ result[2][1][2].data[2][2].data[1] = "List"
    /\ result[2][1][2].data[2][2].data[2][2].data[1] = "List"

\* the import set written by the tokens of ts from position i on and the
\* position after it
RECURSIVE ImportAt(_, _)
RECURSIVE NamesFrom(_, _)
RECURSIVE PairsFrom(_, _)
NamesFrom(ts, i) ==
    IF ts[i] = RP THEN [ast |-> <<>>, next |-> i + 1]
    ELSE LET ns == NamesFrom(ts, i + 1)
         IN  [ast |-> <<ts[i][2]>> \o ns.ast, next |-> ns.next]
PairsFrom(ts, i) ==
    IF ts[i] = RP THEN [ast |-> <<>>, next |-> i + 1]
    ELSE LET ps == PairsFrom(ts, i + 4)
         IN  [ast |-> << <<ts[i + 1][2], ts[i + 2][2]>> >> \o ps.ast, next |-> ps.next]
ImportAt(ts, i) ==
    IF ts[i] # LP THEN [ast |-> <<"Direct", ts[i][2]>>, next |-> i + 1]
    ELSE LET inner == ImportAt(ts, i + 2)
             word == ts[i + 1][2]
         IN  CASE word = "only" ->
                    LET ns == NamesFrom(ts, inner.next)
                    IN  [ast |-> <<"Only", inner.ast, ns.ast>>, next |-> ns.next]
               [] word = "except" ->
                    LET ns == NamesFrom(ts, inner.next)
                    IN  [ast |-> <<"Except", inner.ast, ns.ast>>, next |-> ns.next]
               [] word = "rename" ->
                    LET ps == PairsFrom(ts, inner.next)
                    IN  [ast |-> <<"Rename", inner.ast, ps.ast>>, next |-> ps.next]
               [] word = "prefix" ->
                    [ast |-> <<"Prefix", inner.ast, ts[inner.next][2]>>,
                     next |-> inner.next + 2]

ImportOf(item) == ImportAt(item, 1).ast

\* an import set without its locations
RECURSIVE StripI(_)
StripI(set) ==
    LET d == set.data
    IN  IF d[1] = "Direct" THEN d ELSE <<d[1], StripI(d[2]), d[3]>>

ReturnedImport ==
    /\ ReturnedStatement
    /\ result[2][1][1] = "ImportDeclaration"

ReturnedSets == [i \in DOMAIN result[2][1][2] |-> StripI(result[2][1][2][i])]

\* C17: ( import s1 .. sn ) is ImportDeclaration([S1 .. Sn]) with a bare
\* identifier read as Direct, ( only inner n.. ) as Only, ( except inner n.. )
\* as Except and ( rename inner (o m).. ) as Rename, inner being any import set.
C17_ImportDeclaration ==
    (/\ ShapeParsed("import") /\ Closed
     /\ \A i \in DOMAIN shape.body : shape.body[i] \in ImportSets) =>
        /\ ReturnedImport
        /\ ReturnedSets = [i \in DOMAIN shape.body |-> ImportOf(shape.body[i])]

\* C17 witness: a declaration of a rename of an only set after a direct set
C17_Witness ==
    /\ ShapeParsed("import") /\ Closed /\ Len(shape.body) = 2
    /\ shape.body[1] = <<Id("lib")>>
    /\ Len(shape.body[2]) = 16
    /\ ReturnedImport
    /\ result[2][1][2][1].data = <<"Direct", "lib">>
    /\ result[2][1][2][2].data[1] = "Rename"
    /\ result[2][1][2][2].data[2].data[1] = "Only"
    /\ result[2][1][2][2].data[3] = << <<"a", "b">>, <<"c", "d">> >>

\* C18: ( prefix inner name ) parses to Prefix(inner, name).
C18_PrefixImport ==
    (/\ ShapeParsed("import") /\ Closed /\ Len(shape.body) = 1
     /\ shape.body[1] \in PrefixSets) =>
        /\ ReturnedImport
        /\ ReturnedSets = << ImportOf(shape.body[1]) >>

\* ts, a stream over the call alphabet, ends inside a procedure call after its
\* operator and any number of arguments: a parenthesis is left open, none is
\* closed at once and the last token opens none
OpenCall(ts) ==
    /\ Len(ts) >= 2
    /\ ts[1] = LP
    /\ \A i \in DOMAIN ts : ts[i] \in CallAlphabet
    /\ CloseAt(ts, 1, 0) = 0
    /\ \A i \in 1..(Len(ts) - 1) : ts[i] = LP => ts[i + 1] # RP
    /\ ts[Len(ts)] # LP

\* C19: a RightParen where a statement starts is the Syntax error "Unmatched
\* Parentheses!" at that token's location; a procedure call whose input ends
\* after its operator and arguments is the same error at the location of the
\* last token consumed, None when the tokens carry no location.
C19_UnmatchedParentheses ==
    LET items == entry[1].lexer
        ts == DataSeq(items)
    IN  (Called /\ NoLexError(items)) =>
            /\ (ts # <<>> /\ ts[1] = RP) =>
                   result = Err(syntax_error(items[1][2].location,
                                             "Unmatched Parentheses!"))
            /\ OpenCall(ts) =>
                   /\ result = Err(syntax_error(items[Len(ts)][2].location,
                                                "Unmatched Parentheses!"))
                   /\ lexer = <<>>

\* C19 witness: ( x ( x ) 1 ends after the second argument of the call, the
\* first argument being a call
C19_Witness ==
    /\ calls = 1
    /\ NoLexError(input)
    /\ DataSeq(input) = <<LP, Id("x"), LP, Id("x"), RP, One>>
    /\ input[6][2].location # None
    /\ result = Err(syntax_error(input[6][2].location, "Unmatched Parentheses!"))

\* C19 witness without locations: the stream of the test unmatched_parantheses
C19_WitnessUnlocated ==
    /\ calls = 1
    /\ NoLexError(input)
    /\ DataSeq(input) = <<LP, Id("+"), One, <<"Integer", 2>>, <<"Integer", 3>>>>
    /\ result = Err(syntax_error(None, "Unmatched Parentheses!"))

\* the position of the token that ends the form starting at position i of ts,
\* 0 when there is none: ( and #( run to the parenthesis that closes them, '
\* runs to the end of the form after it, any other token but ) is a form
RECURSIVE GroupEnd(_, _, _)
GroupEnd(ts, i, depth) ==
    IF i > Len(ts) THEN 0
    ELSE IF ts[i] \in {LP, <<"VecConsIntro">>} THEN GroupEnd(ts, i + 1, depth + 1)
    ELSE IF ts[i] = RP
    THEN IF depth = 1 THEN i ELSE GroupEnd(ts, i + 1, depth - 1)
    ELSE GroupEnd(ts, i + 1, depth)

RECURSIVE FormEnd(_, _)
FormEnd(ts, i) ==
    IF i > Len(ts) THEN 0
    ELSE IF ts[i] \in {LP, <<"VecConsIntro">>} THEN GroupEnd(ts, i, 0)
    ELSE IF ts[i] = <<"Quote">> THEN FormEnd(ts, i + 1)
    ELSE IF ts[i] = RP THEN 0
    ELSE i

\* the first and last position of each top-level form of ts from position i on,
\* <<0, 0>> where no form starts
RECURSIVE Spans(_, _)
Spans(ts, i) ==
    IF i > Len(ts) THEN <<>>
    ELSE LET e == FormEnd(ts, i)
         IN  IF e = 0 THEN << <<0, 0>> >> ELSE << <<i, e>> >> \o Spans(ts, e + 1)

Forms == Spans(DataSeq(input), 1)

\* iterating a parser over the tokens a span of the input covers, alone
Alone(span) ==
    next([current |-> None, lexer |-> SubSeq(input, span[1], span[2]),
          location |-> None])

\* the input is a concatenation of top-level forms, each of which alone is
\* parsed to a statement that takes all its tokens
WellFormed ==
    /\ NoLexError(input)
    /\ LET spans == Forms
       IN  \A k \in DOMAIN spans :
               /\ spans[k] # <<0, 0>>
               /\ LET alone == Alone(spans[k])
                  IN  /\ alone.r # None
                      /\ alone.r[1][1] = "Ok"
                      /\ alone.p.lexer = <<>>

\* C20: iterating the parser over a concatenation of well-formed top-level forms
\* f1 .. fn yields n statements and then None, the k-th being the parse of fk made
\* of exactly the tokens of fk: no token is skipped, none is used twice.
C20_Iteration ==
    (Called /\ WellFormed) =>
        LET spans == Forms
            n == Len(spans)
        IN  /\ calls <= n =>
                /\ next_item(result) = Alone(spans[calls]).r
                /\ Len(entry[1].lexer) = Len(input) - spans[calls][1] + 1
                /\ lexer = SubSeq(input, spans[calls][2] + 1, Len(input))
            /\ calls > n =>
                /\ next_item(result) = None
                /\ lexer = <<>>

\* C20 witness: the end of the iteration over the five quotations and vectors of
\* the test literals
C20_Witness ==
    /\ calls = 6
    /\ WellFormed
    /\ Len(Forms) = 5
    /\ Len(input) = 15
    /\ next_item(result) = None

\* C20 witness: the second statement of a conditional followed by an identifier
C20_WitnessSecond ==
    /\ calls = 2
    /\ shape.kw = "if"
    /\ WellFormed
    /\ Len(Forms) = 2
    /\ next_item(result) = Some(Ok(<<"Expression",
           [data |-> Id("x"), location |-> input[Len(input)][2].location]>>))

\* C21: the node of the first statement parse() returns carries the location of
\* the token that introduces it, the first token of the stream: a literal its own
\* token's, a parenthesised form its opening token's.
C21_IntroducingLocation ==
    (/\ calls = 1
     /\ NoLexError(input)
     /\ ReturnedExpression \/ ReturnedDefinition) =>
        result[2][1][2].location = input[1][2].location

\* expression e holds no Period node outside its quotations, lists and vectors
RECURSIVE NoPeriodNode(_)
NoPeriodNode(e) ==
    LET d == e.data
    IN  CASE d[1] = "Period" -> FALSE
          [] d[1] = "ProcedureCall" ->
               /\ NoPeriodNode(d[2])
               /\ \A i \in DOMAIN d[3] : NoPeriodNode(d[3][i])
          [] d[1] = "Conditional" ->
               /\ NoPeriodNode(d[2][1])
               /\ NoPeriodNode(d[2][2])
               /\ d[2][3] # None => NoPeriodNode(d[2][3][1])
          [] d[1] = "Procedure" ->
               /\ \A i \in DOMAIN d[2][2] : NoPeriodNode(d[2][2][i].data[2])
               /\ \A j \in DOMAIN d[2][3] : NoPeriodNode(d[2][3][j])
          [] d[1] = "Assignment" -> NoPeriodNode(d[3])
          [] OTHER -> TRUE

\* C22: no statement parse() returns holds a Period node as the top-level
\* expression, as operator or argument of a call, as a branch of a conditional
\* or as the value of a definition or assignment.
C22_PeriodOnlyInFormals ==
    Called =>
        /\ ReturnedExpression => NoPeriodNode(result[2][1][2])
        /\ ReturnedDefinition => NoPeriodNode(result[2][1][2].data[2])

\* the position of the first error item of items, 0 when there is none
FirstError(items) ==
    IF NoLexError(items) THEN 0
    ELSE CHOOSE i \in DOMAIN items :
             /\ items[i][1] = "Err"
             /\ \A j \in 1..(i - 1) : items[j][1] = "Ok"

\* C23: a parse() call that takes an error item from the token iterator returns
\* exactly that error and no statement.
C23_LexerErrorPropagates ==
    Called =>
        LET items == entry[1].lexer
            i == FirstError(items)
        IN  (i > 0 /\ Len(lexer) <= Len(items) - i) => result = items[i]

\* C24: a comparison built-in called with at least one argument, one of which is
\* no number, fails with a Logic error, wherever that argument stands.
C24_ComparisonRejectsNonNumbers ==
    (CalledAs(Comparisons) /\ arguments # <<>> /\ ~AllNumbers(arguments)) =>
        IsLogicError(ret.r)

\* argument i of a call of min / max is a winning operand: no argument is less
\* (min) or greater (max) than it
Wins(i) ==
    \A j \in DOMAIN arguments :
        IF fname = "min"
        THEN Cross(arguments[i][2], arguments[j][2]) <= 0
        ELSE Cross(arguments[i][2], arguments[j][2]) >= 0

\* C25: min and max over numbers return the winning operand as it was given: when
\* an exact operand wins the result is exact, also when a Real operand equals it,
\* as in min(1, 1.0) = 1.
C25_MinMaxKeepExact ==
    (/\ CalledAs({"min", "max"})
     /\ arguments # <<>>
     /\ AllNumbers(arguments)
     /\ \E i \in DOMAIN arguments : IsExact(arguments[i][2]) /\ Wins(i)) =>
        /\ ret.r[1] = "Ok"
        /\ IsExact(ret.r[2][2])

\* the Result a numeric built-in makes of the number model's Result v
NumberResult(v) == IF v[1] = "Err" THEN v ELSE Ok(Number(v[2]))

\* C26: sqrt, floor, ceiling and exact fail with Logic "<name> takes exactly one
\* argument" without a first argument and with "<name> requires a number, got
\* <argument>" when it is no number; floor-quotient and floor-remainder fail with
\* "<name> takes exactly two arguments" at the first absent argument and with
\* "expect a number!" at the first that is no number, the leftmost of the two
\* positions deciding; on numbers all return the number model's result or error.
C26_NumericArguments ==
    LET a == arguments
    IN  /\ CalledAs({"sqrt", "floor", "ceiling", "exact"}) =>
               ret.r =
                   IF Len(a) = 0
                   THEN Err(logic_error(fname \o " takes exactly one argument"))
                   ELSE IF ~IsNumber(a[1])
                   THEN Err(logic_error(fname \o " requires a number, got {:?}"))
                   ELSE NumberResult(NumberUnary(fname, a[1][2]))
        /\ CalledAs({"floor-quotient", "floor-remainder"}) =>
               LET absent == IF Len(a) < 2 THEN Len(a) + 1 ELSE 3
                   other == IF \E i \in 1..2 : i <= Len(a) /\ ~IsNumber(a[i])
                            THEN CHOOSE i \in 1..2 :
                                     /\ i <= Len(a) /\ ~IsNumber(a[i])
                                     /\ \A j \in 1..(i - 1) : IsNumber(a[j])
                            ELSE 3
               IN  ret.r =
                       IF absent < other
                       THEN Err(logic_error(fname \o " takes exactly two arguments"))
                       ELSE IF other < absent
                       THEN Err(logic_error("expect a number!"))
                       ELSE NumberResult(NumberBinary(fname, a[1][2], a[2][2]))

\* C26 witness: floor-quotient with a number and a non-number fails at the second
C26_Witness ==
    /\ fname = "floor-quotient"
    /\ Len(arguments) = 2
    /\ IsNumber(arguments[1]) /\ ~IsNumber(arguments[2])
    /\ ret.r = Err(logic_error("expect a number!"))

\* C26 witness: floor-remainder with a non-number alone fails on its kind, not on
\* the absent second argument
C26_WitnessLeftmost ==
    /\ fname = "floor-remainder"
    /\ Len(arguments) = 1 /\ ~IsNumber(arguments[1])
    /\ ret.r = Err(logic_error("expect a number!"))

\* the names the claim lists
RegistryNames ==
    {"+", "-", "*", "/", "=", "<", "<=", ">", ">=", "min", "max", "sqrt", "floor",
     "ceiling", "exact", "floor-quotient", "floor-remainder", "display", "newline",
     "vector", "vector-ref"}

\* C27: base_library() binds exactly the 21 names of the claim, each to a
\* built-in procedure, with 1 fixed parameter for sqrt, floor, ceiling, exact and
\* display, 2 for floor-quotient, floor-remainder and vector-ref, 0 for the rest.
C27_Registry ==
    /\ DOMAIN base_library = RegistryNames
    /\ Cardinality(DOMAIN base_library) = 21
    /\ \A name \in DOMAIN base_library :
           Len(base_library[name][1]) =
               CASE name \in {"sqrt", "floor", "ceiling", "exact", "display"} -> 1
                 [] name \in {"floor-quotient", "floor-remainder", "vector-ref"} -> 2
                 [] OTHER -> 0
    /\ fname # "" => (fname \in RegistryNames /\ ret = apply(fname, arguments))

\* C27 witness: newline, registered without parameter, was called without argument
C27_Witness ==
    /\ fname = "newline"
    /\ base_library[fname] = <<(<<>>), None>>
    /\ arguments = <<>>
    /\ ret.r = Ok(<<"Void">>)

\* C28: a parse() call on a stream that still has items takes at least one of
\* them, whether it returns a statement or an error; a call on a stream without
\* items returns None and leaves it so; hence the call number Len(input) + 1 and
\* every later call return None.
C28_Progress ==
    Called =>
        /\ entry[1].lexer # <<>> => Len(lexer) < Len(entry[1].lexer)
        /\ entry[1].lexer = <<>> => (result = Ok(None) /\ lexer = <<>>)
        /\ calls > Len(input) => result = Ok(None)

\* C28 witness: three items, the second an error, are taken by three calls, one
\* item each, and the fourth call returns None
C28_Witness ==
    /\ Len(input) = 3
    /\ input[1][1] = "Ok" /\ input[2][1] = "Err" /\ input[3][1] = "Ok"
    /\ calls = 4
    /\ result = Ok(None)

\* how many of the tokens ts are among kinds
Count(ts, kinds) == Cardinality({i \in DOMAIN ts : ts[i] \in kinds})

\* C29: the tokens a parse() call consumed for the statement it returns are
\* balanced: as many LeftParen and VecConsIntro as RightParen, and a statement
\* that opens with a parenthesis ends with one.
C29_BalancedTokens ==
    (Called /\ ReturnedStatement /\ NoLexError(entry[1].lexer)) =>
        /\ Count(Consumed, {LP, <<"VecConsIntro">>}) = Count(Consumed, {RP})
        /\ Consumed[1] = LP => Consumed[Len(Consumed)] = RP

IsLexerError(r) == r[1] = "Err" /\ r[2].category = "Lexical"

\* the position in the input of the error item the last call reported: the last
\* item it took when that is an error item, otherwise the item it peeked at
Reported ==
    LET taken == Len(input) - Len(lexer)
    IN  IF taken > 0 /\ input[taken][1] = "Err" THEN taken ELSE taken + 1

\* C30: an error item of the token iterator is reported by at most one parse()
\* call: when a call returns a lexer error after a call that returned one, it
\* reports another item.
C30_ErrorReportedOnce ==
    [][(IsLexerError(result) /\ IsLexerError(result')) => Reported' # Reported]_vars

====
